---- MODULE Spec2Model ----
(***************************************************************************)
(* Windowing / alignment core of kaggle-hms-bilzard: the dataset classes   *)
(* of src/dataset/eeg.py as state machines.                                *)
(*                                                                         *)
(* Arrays are modelled along their time axis only (axis 0 of an EEG or a   *)
(* CQF array, axis 1 of a spectrogram): a record is the sequence of its    *)
(* frames, and the value of a frame encodes the record and the frame       *)
(* index, so that a slice tells where it was cut.  No code modelled here   *)
(* indexes the channel axis.                                               *)
(***************************************************************************)
EXTENDS Integers, Sequences, FiniteSets, TLC

VARIABLES
    cls,            \* the dataset class that was constructed
    args,           \* the constructor arguments kept on self
    metadata,       \* self.metadata: the sequence of label rows
    id2eeg,         \* self.id2eeg: eeg_id -> frames
    id2cqf,         \* self.id2cqf: eeg_id -> frames of the mask
    spec_id2spec,   \* self.spec_id2spec: [is_none, specs: spectrogram_id -> frames]
    eeg_ids,        \* self.eeg_ids
    eeg_id2metadata,\* self.eeg_id2metadata
    chunks,         \* self.chunks (SlidingWindowEegDataset)
    generator,      \* the state of self._generator
    call,           \* history: the index of the last __getitem__ call and what it drew
    data,           \* what the last __getitem__ call returned or raised
    first_pass,     \* history: the calls and draws of the pass before the last reset
    this_pass,      \* history: the calls and draws since construction or the last reset
    worker_gen,     \* the generator of each DataLoader worker's copy of the dataset
    worker_start,   \* history: the generator state each worker started from
    pc,             \* the position of the constructor (__init__) of the dataset
    attrs,          \* the names of the attributes assigned on self so far
    fn_in,          \* the arguments of the function under study
    fn_out,         \* what the last application of a function returned or raised
    param_groups,   \* Lookahead.param_groups: params, lookahead_alpha, _k, _step
    params,         \* the data of every parameter (fast_p.data)
    state,          \* Lookahead.state: parameter -> [slow_buffer]
    opt_log         \* history: the gradients of the last step() call and the
                    \* groups it ran update_slow on

vars == <<cls, args, metadata, id2eeg, id2cqf, spec_id2spec, eeg_ids,
          eeg_id2metadata, chunks, generator, call, data, first_pass, this_pass,
          worker_gen, worker_start, pc, attrs, fn_in, fn_out, param_groups,
          params, state, opt_log>>

\* the position of the constructor and what it has assigned
construction == <<pc, attrs>>

\* the input and the output of the module-level functions and the nn.Modules
fn_vars == <<fn_in, fn_out>>

\* the Lookahead optimizer
optimizer == <<param_groups, params, state, opt_log>>

\* the configuration, which no method changes
config == <<cls, args, metadata, id2eeg, id2cqf, spec_id2spec, eeg_ids,
            eeg_id2metadata, chunks>>

(***************************************************************************)
(* Bounds of the model.                                                    *)
(***************************************************************************)
NumEegs == 2
MaxFrames == 5
MaxDuration == 3
MaxStride == 2
MaxSamples == 2
MaxRows == 2
MaxSpecFrames == 5
MaxSpecDurationSec == 8
MaxCrop == 3
MaxCalls == 3
NumWorkers == 2
GenModulus == 8
MaxChannels == 2
MaxBatch == 2
MaxSpecChannels == 20
MaxFreq == 2
MaxTime == 2
MaxTableRows == 3
MaxWeight == 2
MaxMoved == 3
MaxOptSteps == 3
MaxK == 2

Min(a, b) == IF a < b THEN a ELSE b
Max(a, b) == IF a > b THEN a ELSE b

(***************************************************************************)
(* Python built-ins used by the code.                                      *)
(***************************************************************************)
\* a[start:stop] of a sequence: negative indices count from the end, both
\* ends are clipped to the sequence
PyIndex(i, n) == IF i < 0 THEN Max(i + n, 0) ELSE Min(i, n)

PySlice(a, start, stop) ==
    LET n == Len(a)
        lo == PyIndex(start, n)
        hi == PyIndex(stop, n)
    IN  IF lo >= hi THEN << >> ELSE [k \in 1..(hi - lo) |-> a[lo + k]]

\* range(0, stop, step), step >= 1
PyRange0(stop, step) ==
    IF stop <= 0 THEN << >>
    ELSE [k \in 1..((stop + step - 1) \div step) |-> (k - 1) * step]

\* int(x * rate) rounding up
IntMulCeil(x, rate) == (x * rate.num + rate.den - 1) \div rate.den

\* int(x * rate) for an integer x and a rate num/den: truncation toward zero
IntMul(x, rate) ==
    LET p == x * rate.num
    IN  IF p >= 0 THEN p \div rate.den ELSE -((-p) \div rate.den)

\* sorted(list of unique ints)
RECURSIVE SortedSeq(_)
SortedSeq(S) ==
    IF S = {} THEN << >>
    ELSE LET m == CHOOSE x \in S : \A y \in S : x <= y
         IN  <<m>> \o SortedSeq(S \ {m})

RECURSIVE Concat(_)
Concat(ss) == IF ss = << >> THEN << >> ELSE Head(ss) \o Concat(Tail(ss))

(***************************************************************************)
(* torch.Generator: a deterministic state machine.  manual_seed fixes the  *)
(* state from the seed; torch.randint(high, (1,), generator=g) advances    *)
(* the state by one draw and returns a value in [0, high).                 *)
(***************************************************************************)
ManualSeed(seed) == seed % GenModulus

GenNext(g) == (g + 1) % GenModulus

\* the number the generator gives out in state g
GenOutput(g) == (g * (g + 3)) \div 2

RandintValue(high, g) == GenOutput(GenNext(g)) % high

(***************************************************************************)
(* src.array_util.pad_multiple_of (axis 0): pad the time axis up to the    *)
(* next multiple of `multiple`; the anchor says where the padding goes,    *)
(* the mode how it is filled (numpy's reflect, or the constant 0).         *)
(***************************************************************************)
ReflectIndex(j, L) ==
    IF L = 1 THEN 1
    ELSE LET P == 2 * (L - 1)
             pos == (j - 1) % P
         IN  IF pos < L THEN pos + 1 ELSE P - pos + 1

PadTarget(L, multiple) == ((L + multiple - 1) \div multiple) * multiple

PadBefore(pad, padding_type) ==
    CASE padding_type = "right" -> 0
      [] padding_type = "left" -> pad
      [] padding_type = "center" -> pad \div 2

pad_multiple_of(x, multiple, padding_type, mode) ==
    LET L == Len(x)
        target == PadTarget(L, multiple)
        before == PadBefore(target - L, padding_type)
    IN  [k \in 1..target |->
            LET j == k - before
            IN  IF j >= 1 /\ j <= L THEN x[j]
                ELSE IF mode = "reflect" THEN x[ReflectIndex(j, L)]
                ELSE 0]

\* pad_eeg with the mask padded like the signal
pad_eeg_MaskReflect(eeg, cqf, duration, padding_type) ==
    [eeg |-> pad_multiple_of(eeg, duration, padding_type, "reflect"),
     cqf |-> pad_multiple_of(cqf, duration, padding_type, "reflect")]

\* pad_eeg returning the mask as it came
pad_eeg_MaskUnpadded(eeg, cqf, duration, padding_type) ==
    [eeg |-> pad_multiple_of(eeg, duration, padding_type, "reflect"),
     cqf |-> cqf]

\* pad_eeg: the signal is reflect-padded, the mask zero-padded
pad_eeg(eeg, cqf, duration, padding_type) ==
    [eeg |-> pad_multiple_of(eeg, duration, padding_type, "reflect"),
     cqf |-> pad_multiple_of(cqf, duration, padding_type, "constant")]

(***************************************************************************)
(* sample_eeg: num_samples windows of one record.  A record shorter than   *)
(* the window is padded and no draw is made; otherwise each window is cut  *)
(* at a start drawn from the generator, the draws following one another.   *)
(***************************************************************************)
RECURSIVE GenAfter(_, _)
GenAfter(g, n) == IF n = 0 THEN g ELSE GenAfter(GenNext(g), n - 1)

\* SampleStart with a bound one too large
SampleStartHighPlusOne(num_frames, duration, g) ==
    RandintValue(num_frames - duration + 2, g)

\* the start_frame of one draw: torch.randint(num_frames - duration + 1, ...)
SampleStart(num_frames, duration, g) ==
    RandintValue(num_frames - duration + 1, g)

\* sample_eeg drawing a start also for a record shorter than the window
sample_eeg_DrawWhenShort(eeg_org, mask_org, duration, padding_type, num_samples, g) ==
    LET num_frames == Len(eeg_org)
        padded == pad_eeg(eeg_org, mask_org, duration, padding_type)
        start(k) == SampleStart(num_frames, duration, GenAfter(g, k - 1))
    IN  IF num_frames < duration
        THEN [eeg |-> [k \in 1..num_samples |-> padded.eeg],
              mask |-> [k \in 1..num_samples |-> padded.cqf],
              generator |-> GenAfter(g, num_samples)]
        ELSE [eeg |-> [k \in 1..num_samples |->
                         PySlice(eeg_org, start(k), start(k) + duration)],
              mask |-> [k \in 1..num_samples |->
                         PySlice(mask_org, start(k), start(k) + duration)],
              generator |-> GenAfter(g, num_samples)]

sample_eeg(eeg_org, mask_org, duration, padding_type, num_samples, g) ==
    LET num_frames == Len(eeg_org)
        padded == pad_eeg(eeg_org, mask_org, duration, padding_type)
        start(k) == SampleStart(num_frames, duration, GenAfter(g, k - 1))
    IN  IF num_frames < duration
        THEN [eeg |-> [k \in 1..num_samples |-> padded.eeg],
              mask |-> [k \in 1..num_samples |-> padded.cqf],
              generator |-> g]
        ELSE [eeg |-> [k \in 1..num_samples |->
                         PySlice(eeg_org, start(k), start(k) + duration)],
              mask |-> [k \in 1..num_samples |->
                         PySlice(mask_org, start(k), start(k) + duration)],
              generator |-> GenAfter(g, num_samples)]

(***************************************************************************)
(* The inputs: records, masks, spectrograms and the label rows.            *)
(***************************************************************************)
Eegs == 1..NumEegs

EegFrame(eeg_id, k) == 100 * eeg_id + k
CqfFrame(eeg_id, k) == 1000 + 100 * eeg_id + k
SpecFrame(spectrogram_id, k) == 100 * spectrogram_id + k

EegRecord(eeg_id, num_frames) == [k \in 1..num_frames |-> EegFrame(eeg_id, k - 1)]
CqfRecord(eeg_id, num_frames) == [k \in 1..num_frames |-> CqfFrame(eeg_id, k - 1)]
SpecRecord(spectrogram_id, num_frames) ==
    [k \in 1..num_frames |-> SpecFrame(spectrogram_id, k - 1)]

SpecIdOf(eeg_id) == 10 + eeg_id

\* row j of record eeg_id, which has n rows
LabelRow(eeg_id, j, n, estep, sbase, sstep) ==
    [eeg_id |-> eeg_id,
     spectrogram_id |-> SpecIdOf(eeg_id),
     prob |-> 10 * eeg_id + j,
     weight |-> j,
     prob_per_eeg |-> 10 * eeg_id,
     weight_per_eeg |-> n,
     eeg_label_offset_seconds |-> (j - 1) * estep,
     spectrogram_label_offset_seconds |-> sbase + (j - 1) * sstep]

\* the table lists the records in descending id order
MetadataTable(nrows, estep, sbase, sstep) ==
    Concat([e \in 1..NumEegs |->
              LET eeg_id == NumEegs + 1 - e
              IN  [j \in 1..nrows[eeg_id] |->
                     LabelRow(eeg_id, j, nrows[eeg_id], estep, sbase, sstep)]])

(***************************************************************************)
(* What the constructors build.                                            *)
(***************************************************************************)
ClsSlidingWindowPerEeg == "SlidingWindowPerEegDataset"
ClsSlidingWindowEeg == "SlidingWindowEegDataset"
ClsUniformSampling == "UniformSamplingEegDataset"
ClsPerEeg == "PerEegDataset"
ClsPerEegSubsample == "PerEegSubsampleDataset"

Classes == {ClsSlidingWindowPerEeg, ClsSlidingWindowEeg, ClsUniformSampling,
            ClsPerEeg, ClsPerEegSubsample}

RowsOf(md, eeg_id) == SelectSeq(md, LAMBDA r : r.eeg_id = eeg_id)

\* metadata.group_by("eeg_id", maintain_order=True).agg(... .first()): the
\* first row of every record, in the order the records first appear
FirstIndexes(md) ==
    {i \in 1..Len(md) : \A j \in 1..(i - 1) : md[j].eeg_id /= md[i].eeg_id}

GroupByFirst(md) ==
    LET idx == SortedSeq(FirstIndexes(md))
    IN  [k \in 1..Len(idx) |-> md[idx[k]]]

\* EegIdsOf without sorted(): the ids in the order of the table
EegIdsUnsorted(md) ==
    [k \in 1..Len(GroupByFirst(md)) |-> GroupByFirst(md)[k].eeg_id]

\* sorted(self.metadata["eeg_id"].unique().to_list())
EegIdsOf(md) == SortedSeq({md[i].eeg_id : i \in 1..Len(md)})

\* eeg_id -> its rows.  group_by(...).first() keeps the first row of each
\* record; PerEegSubsampleDataset keeps all of them
EegId2Metadata(c, md) ==
    [eeg_id \in {md[i].eeg_id : i \in 1..Len(md)} |->
        IF c = ClsPerEegSubsample THEN RowsOf(md, eeg_id)
        ELSE <<Head(RowsOf(md, eeg_id))>>]

\* the table a constructor hands to HmsBaseDataset.__init__:
\* PerEegSubsampleDataset selects columns and keeps every row, the other
\* classes group by record
PreparedMetadata(c, md) ==
    IF c = ClsPerEegSubsample THEN md ELSE GroupByFirst(md)

\* ChunkStarts with the + 1 of the range's stop forgotten
ChunkStartsNoPlusOne(num_frames, duration, stride) ==
    PyRange0(num_frames - duration, stride)

\* the chunks of one record: range(0, num_frames - duration + 1, stride)
ChunkStarts(num_frames, duration, stride) ==
    PyRange0(num_frames - duration + 1, stride)

\* RecordChunks with a chunk at every multiple of stride inside the record
RecordChunksEveryStart(eeg_id, num_frames, duration, stride) ==
    LET starts == PyRange0(num_frames, stride)
    IN  [k \in 1..Len(starts) |-> <<eeg_id, starts[k], starts[k] + duration>>]

\* end_frame = start_frame + self.duration; chunks.append(...)
RecordChunks(eeg_id, num_frames, duration, stride) ==
    LET starts == ChunkStarts(num_frames, duration, stride)
    IN  [k \in 1..Len(starts) |-> <<eeg_id, starts[k], starts[k] + duration>>]

\* SlidingWindowEegDataset._generate_chunks
generate_chunks(ids, eegs, duration, stride) ==
    Concat([i \in 1..Len(ids) |->
              RecordChunks(ids[i], Len(eegs[ids[i]]), duration, stride)])

\* __len__
DatasetLen ==
    CASE cls = ClsSlidingWindowEeg -> Len(chunks)
      [] cls = ClsPerEegSubsample -> Len(eeg_ids) * args.num_samples_per_eeg
      [] OTHER -> Len(eeg_ids)

(***************************************************************************)
(* __getitem__ of each class: the item returned (or the error raised) and  *)
(* the generator afterwards, as a function of the index and the generator. *)
(* `draws` lists what the call drew from the generator.                    *)
(***************************************************************************)
RowWeight(row, weight_key) ==
    IF weight_key = "weight" THEN row.weight ELSE row.weight_per_eeg

Item(eeg_id, eeg, cqf, has_bg_spec, bg_spec, has_label, label, weight) ==
    [status |-> "ok", eeg_id |-> eeg_id, eeg |-> eeg, cqf |-> cqf,
     has_bg_spec |-> has_bg_spec, bg_spec |-> bg_spec,
     has_label |-> has_label, label |-> label, weight |-> weight]

Raised(error) ==
    [status |-> error, eeg_id |-> 0, eeg |-> << >>, cqf |-> << >>,
     has_bg_spec |-> FALSE, bg_spec |-> << >>,
     has_label |-> FALSE, label |-> 0, weight |-> 0]

NoItem == Raised("none")

NoCall == [idx |-> -1, draws |-> << >>]

\* apply_transform: no transform is configured (transform=None)
apply_transform(eeg, cqf) == [eeg |-> eeg, cqf |-> cqf]

\* the windows of an already padded record
StackWindows(x, duration, stride) ==
    LET starts == ChunkStarts(Len(x), duration, stride)
    IN  [k \in 1..Len(starts) |-> PySlice(x, starts[k], starts[k] + duration)]

\* Lookup handing out an empty array for a key the dict does not hold
LookupOrEmpty(cache, key) ==
    [found |-> TRUE,
     value |-> IF key \in DOMAIN cache THEN cache[key] ELSE << >>]

\* cache[key] of a dict: the value, or KeyError
Lookup(cache, key) ==
    IF key \in DOMAIN cache THEN [found |-> TRUE, value |-> cache[key]]
    ELSE [found |-> FALSE, value |-> << >>]

\* KeyError with the generator put back by one draw
KeyErrorRestored(g, draws) ==
    [data |-> Raised("KeyError"),
     generator |-> (g + GenModulus - 1) % GenModulus, draws |-> draws]

\* raise KeyError(key): the call ends with the generator as it is
KeyError(g, draws) ==
    [data |-> Raised("KeyError"), generator |-> g, draws |-> draws]

SlidingWindowPerEegGetItem(i, g) ==
    LET eeg_id == eeg_ids[i + 1]
        eeg_org == Lookup(id2eeg, eeg_id)
        cqf_org == Lookup(id2cqf, eeg_id)
        padded == pad_eeg(eeg_org.value, cqf_org.value, args.duration,
                          args.padding_type)
        row == eeg_id2metadata[eeg_id][1]
    IN  IF ~eeg_org.found \/ ~cqf_org.found THEN KeyError(g, << >>)
        ELSE [data |-> Item(eeg_id,
                            StackWindows(padded.eeg, args.duration, args.stride),
                            StackWindows(padded.cqf, args.duration, args.stride),
                            FALSE, << >>, TRUE, row.prob_per_eeg,
                            RowWeight(row, args.weight_key)),
              generator |-> g, draws |-> << >>]

SlidingWindowEegGetItem(i, g) ==
    LET chunk == chunks[i + 1]
        eeg_id == chunk[1]
        row == eeg_id2metadata[eeg_id][1]
        eeg == Lookup(id2eeg, eeg_id)
        cqf == Lookup(id2cqf, eeg_id)
        padded == pad_eeg(PySlice(eeg.value, chunk[2], chunk[3]),
                          PySlice(cqf.value, chunk[2], chunk[3]),
                          args.duration, args.padding_type)
    IN  IF ~eeg.found \/ ~cqf.found THEN KeyError(g, << >>)
        ELSE [data |-> Item(eeg_id, padded.eeg, padded.cqf, FALSE, << >>, TRUE,
                            row.prob_per_eeg, RowWeight(row, args.weight_key)),
              generator |-> g, draws |-> << >>]

UniformSamplingGetItem(i, g) ==
    LET eeg_id == eeg_ids[i + 1]
        row == eeg_id2metadata[eeg_id][1]
        eeg == Lookup(id2eeg, eeg_id)
        cqf == Lookup(id2cqf, eeg_id)
        s == sample_eeg(eeg.value, cqf.value, args.duration,
                        args.padding_type, args.num_samples_per_eeg, g)
        t == apply_transform(s.eeg, s.mask)
        num_frames == Len(eeg.value)
    IN  IF ~eeg.found \/ ~cqf.found THEN KeyError(g, << >>)
        ELSE [data |-> Item(eeg_id, t.eeg, t.cqf, FALSE, << >>, TRUE,
                            row.prob_per_eeg, RowWeight(row, args.weight_key)),
              generator |-> s.generator,
              draws |-> IF num_frames < args.duration THEN << >>
                        ELSE [k \in 1..args.num_samples_per_eeg |->
                                SampleStart(num_frames, args.duration,
                                            GenAfter(g, k - 1))]]

\* CropLeft rounding up: the left side gets the larger half
CropLeftCeil(crop_frames) == (crop_frames + 1) \div 2

\* CropAssert compiled away
CropAssertOff(width, spec_cropped_duration) == TRUE

\* the symmetric crop of a spectrogram window
CropLeft(crop_frames) == crop_frames \div 2

CropRight(crop_frames) == crop_frames - CropLeft(crop_frames)

\* assert bg_spec.shape[1] == self.spec_cropped_duration
CropAssert(width, spec_cropped_duration) == width = spec_cropped_duration

\* SpecWindow cropping also a window exactly spec_cropped_duration wide
SpecWindowCropEqual(spec, spec_start_frame, spec_end_frame, spec_cropped_duration) ==
    LET bg_spec == PySlice(spec, spec_start_frame, spec_end_frame)
        crop_frames == spec_end_frame - spec_start_frame - spec_cropped_duration
        cropped == PySlice(bg_spec, CropLeft(crop_frames), -CropRight(crop_frames))
    IN  IF crop_frames >= 0
        THEN IF CropAssert(Len(cropped), spec_cropped_duration)
             THEN [ok |-> TRUE, bg_spec |-> cropped]
             ELSE [ok |-> FALSE, bg_spec |-> cropped]
        ELSE [ok |-> TRUE, bg_spec |-> bg_spec]

\* the spectrogram part of __getitem__: slice, then crop when too wide
SpecWindow(spec, spec_start_frame, spec_end_frame, spec_cropped_duration) ==
    LET bg_spec == PySlice(spec, spec_start_frame, spec_end_frame)
        crop_frames == spec_end_frame - spec_start_frame - spec_cropped_duration
        cropped == PySlice(bg_spec, CropLeft(crop_frames), -CropRight(crop_frames))
    IN  IF crop_frames > 0
        THEN IF CropAssert(Len(cropped), spec_cropped_duration)
             THEN [ok |-> TRUE, bg_spec |-> cropped]
             ELSE [ok |-> FALSE, bg_spec |-> cropped]
        ELSE [ok |-> TRUE, bg_spec |-> bg_spec]

\* HeadFrames with the [: duration] forgotten
HeadFramesWhole(x, duration) == x

\* x[: self.duration]
HeadFrames(x, duration) == PySlice(x, 0, duration)

PerEegGetItem(i, g) ==
    LET eeg_id == eeg_ids[i + 1]
        row == eeg_id2metadata[eeg_id][1]
        eeg == Lookup(id2eeg, eeg_id)
        cqf == Lookup(id2cqf, eeg_id)
        padded == pad_eeg(HeadFrames(eeg.value, args.duration),
                          HeadFrames(cqf.value, args.duration),
                          args.duration, args.padding_type)
        t == apply_transform(padded.eeg, padded.cqf)
        spec_end_frame == IntMul(args.spec_duration_sec, args.spec_sampling_rate)
        spec == IF spec_id2spec.is_none THEN [found |-> TRUE, value |-> << >>]
                ELSE Lookup(spec_id2spec.specs, row.spectrogram_id)
        w == IF spec_id2spec.is_none THEN [ok |-> TRUE, bg_spec |-> << >>]
             ELSE SpecWindow(spec.value, 0, spec_end_frame,
                             args.spec_cropped_duration)
    IN  IF ~eeg.found \/ ~cqf.found \/ ~spec.found THEN KeyError(g, << >>)
        ELSE [data |-> IF ~w.ok THEN Raised("AssertionError")
                       ELSE Item(eeg_id, t.eeg, t.cqf, ~spec_id2spec.is_none,
                                 w.bg_spec, args.with_label,
                                 IF args.with_label THEN row.prob_per_eeg ELSE 0,
                                 IF args.with_label
                                 THEN RowWeight(row, args.weight_key) ELSE 0),
              generator |-> g, draws |-> << >>]

\* SubsampleEegId with % in the place of //
SubsampleEegIdModulo(i) == eeg_ids[(i % args.num_samples_per_eeg) + 1]

\* the record an index of PerEegSubsampleDataset serves
SubsampleEegId(i) == eeg_ids[(i \div args.num_samples_per_eeg) + 1]

\* the first label row of the record, whatever was drawn
DrawnRowFirst(this_eeg, sample_idx) == this_eeg[1]

\* row = this_eeg[sample_idx]
DrawnRow(this_eeg, sample_idx) == this_eeg[sample_idx + 1]

PerEegSubsampleGetItem(i, g) ==
    LET eeg_id == SubsampleEegId(i)
        this_eeg == eeg_id2metadata[eeg_id]
        sample_idx == RandintValue(Len(this_eeg), g)
        row == DrawnRow(this_eeg, sample_idx)
        start_frame == IntMul(row.eeg_label_offset_seconds, args.sampling_rate)
        end_frame == start_frame + IntMul(args.duration_sec, args.sampling_rate)
        eeg == Lookup(id2eeg, eeg_id)
        cqf == Lookup(id2cqf, eeg_id)
        padded == pad_eeg(PySlice(eeg.value, start_frame, end_frame),
                          PySlice(cqf.value, start_frame, end_frame),
                          args.duration, args.padding_type)
        t == apply_transform(padded.eeg, padded.cqf)
        spec_start_frame == IntMul(row.spectrogram_label_offset_seconds,
                                   args.spec_sampling_rate)
        spec_end_frame == spec_start_frame
                          + IntMul(args.spec_duration_sec, args.spec_sampling_rate)
        spec == IF spec_id2spec.is_none THEN [found |-> TRUE, value |-> << >>]
                ELSE Lookup(spec_id2spec.specs, row.spectrogram_id)
        w == IF spec_id2spec.is_none THEN [ok |-> TRUE, bg_spec |-> << >>]
             ELSE SpecWindow(spec.value, spec_start_frame, spec_end_frame,
                             args.spec_cropped_duration)
    IN  IF ~eeg.found \/ ~cqf.found \/ ~spec.found
        THEN KeyError(GenNext(g), <<sample_idx>>)
        ELSE [data |-> IF ~w.ok THEN Raised("AssertionError")
                       ELSE Item(eeg_id, t.eeg, t.cqf, ~spec_id2spec.is_none,
                                 w.bg_spec, args.with_label,
                                 IF args.with_label THEN row.prob ELSE 0,
                                 IF args.with_label
                                 THEN RowWeight(row, args.weight_key) ELSE 0),
              generator |-> GenNext(g), draws |-> <<sample_idx>>]

GetItemResult(i, g) ==
    CASE cls = ClsSlidingWindowPerEeg -> SlidingWindowPerEegGetItem(i, g)
      [] cls = ClsSlidingWindowEeg -> SlidingWindowEegGetItem(i, g)
      [] cls = ClsUniformSampling -> UniformSamplingGetItem(i, g)
      [] cls = ClsPerEeg -> PerEegGetItem(i, g)
      [] cls = ClsPerEegSubsample -> PerEegSubsampleGetItem(i, g)

(***************************************************************************)
(* Construction.  HmsBaseDataset.__init__ ends by reset(), so a dataset    *)
(* starts with its generator seeded from self.seed.                        *)
(***************************************************************************)
DefaultSeed == 42
Seeds == {DefaultSeed, DefaultSeed + 1}

PaddingTypes == {"right", "left", "center"}

SamplingRate == [num |-> 2, den |-> 1]
SpecSamplingRate == [num |-> 1, den |-> 2]

IsSliding(c) == c \in {ClsSlidingWindowPerEeg, ClsSlidingWindowEeg}
IsRandom(c) == c \in {ClsUniformSampling, ClsPerEegSubsample}

\* the arguments a caller can give class c; an argument the class does not
\* take keeps one value
ArgsOf(c, paddings, durations, seeds, duration_secs, spec_duration_secs, crops) ==
    [padding_type : paddings,
     duration : durations,
     stride : IF IsSliding(c) THEN 1..MaxStride ELSE {1},
     num_samples_per_eeg : IF IsRandom(c) THEN 1..MaxSamples ELSE {1},
     seed : IF IsRandom(c) THEN seeds ELSE {DefaultSeed},
     weight_key : IF c = ClsPerEegSubsample THEN {"weight"} ELSE {"weight_per_eeg"},
     with_label : {TRUE},
     sampling_rate : {SamplingRate},
     duration_sec : IF c = ClsPerEegSubsample THEN duration_secs ELSE {1},
     spec_duration_sec : spec_duration_secs,
     spec_sampling_rate : {SpecSamplingRate},
     spec_cropped_duration : crops]

\* every label row of the table starts inside its record
OffsetsInside(md, lens, rate) ==
    \A r \in 1..Len(md) :
        IntMul(md[r].eeg_label_offset_seconds, rate) < lens[md[r].eeg_id]

NoSpectrograms == [is_none |-> TRUE, specs |-> << >>]

Spectrograms(slens) ==
    [is_none |-> FALSE,
     specs |-> [sid \in {SpecIdOf(e) : e \in Eegs} |-> SpecRecord(sid, slens[sid])]]

\* the attributes a constructor of class c has assigned when it returns
AttrsOfBase == {"metadata", "id2eeg", "id2cqf", "args", "_generator"}

AttrsOfIndex(c) ==
    {"eeg_ids", "eeg_id2metadata"}
        \cup (IF c = ClsSlidingWindowEeg THEN {"chunks"} ELSE {})
        \cup (IF c \in {ClsPerEeg, ClsPerEegSubsample} THEN {"spec_id2spec"} ELSE {})

\* no optimizer was made
NoOptimizer ==
    /\ param_groups = << >>
    /\ params = << >>
    /\ state = << >>
    /\ opt_log = [has_grad |-> << >>, updated |-> {}]

NoInput == << >>
NoResult == [name |-> "none"]

\* the dataset the constructor of class c returns, given the table md, the
\* records id2eeg_ / id2cqf_ and the spectrograms specs
ConstructedFrom(c, a, md, id2eeg_, id2cqf_, specs) ==
    /\ cls = c
    /\ args = a
    /\ metadata = PreparedMetadata(c, md)
    /\ id2eeg = id2eeg_
    /\ id2cqf = id2cqf_
    /\ spec_id2spec = specs
    /\ eeg_ids = EegIdsOf(PreparedMetadata(c, md))
    /\ eeg_id2metadata = EegId2Metadata(c, PreparedMetadata(c, md))
    /\ chunks = IF c = ClsSlidingWindowEeg
                THEN generate_chunks(EegIdsOf(PreparedMetadata(c, md)), id2eeg_,
                                     a.duration, a.stride)
                ELSE << >>
    /\ generator = ManualSeed(a.seed)
    /\ call = NoCall
    /\ data = NoItem
    /\ first_pass = << >>
    /\ this_pass = << >>
    /\ worker_gen = << >>
    /\ worker_start = << >>
    /\ pc = "done"
    /\ attrs = AttrsOfBase \cup AttrsOfIndex(c)
    /\ fn_in = NoInput
    /\ fn_out = NoResult
    /\ NoOptimizer

Constructed(c, a, md, lens, specs) ==
    ConstructedFrom(c, a, md, [e \in Eegs |-> EegRecord(e, lens[e])],
                    [e \in Eegs |-> CqfRecord(e, lens[e])], specs)

\* the lengths of the records: the first one of any length, the second one
\* frame or MaxFrames long, the others MaxFrames long
RecordLengths ==
    {lens \in [Eegs -> 1..MaxFrames] :
        \A e \in Eegs : /\ e > 1 => lens[e] \in {1, MaxFrames}
                        /\ e > 2 => lens[e] = MaxFrames}

\* the number of label rows of each record: the first one has any number,
\* the others MaxRows
RowCounts ==
    {nrows \in [Eegs -> 1..MaxRows] : \A e \in Eegs : e > 1 => nrows[e] = MaxRows}

\* datasets without spectrograms, of every class
Init ==
    \E c \in Classes, lens \in RecordLengths :
    \E a \in ArgsOf(c, PaddingTypes, 1..MaxDuration,
                    IF c = ClsUniformSampling THEN Seeds ELSE {DefaultSeed},
                    1..2, {1}, {1}) :
    \E nrows \in IF c = ClsPerEegSubsample THEN RowCounts
                 ELSE {[e \in Eegs |-> MaxRows]} :
        LET md == MetadataTable(nrows, 1, 0, 0)
        IN  /\ c = ClsPerEegSubsample => OffsetsInside(md, lens, a.sampling_rate)
            /\ Constructed(c, a, md, lens, NoSpectrograms)

\* the lengths of the spectrograms: the first one of any length, the others
\* MaxSpecFrames long
SpecLengths ==
    {slens \in [{SpecIdOf(e) : e \in Eegs} -> 0..MaxSpecFrames] :
        \A e \in Eegs : e > 1 => slens[SpecIdOf(e)] = MaxSpecFrames}

\* datasets with spectrograms: the two classes that take them, over the
\* spectrogram durations, crop sizes, spectrogram lengths and label offsets
InitSpectrogram ==
    \E c \in {ClsPerEeg, ClsPerEegSubsample}, slens \in SpecLengths :
    \E a \in ArgsOf(c, {"right"}, {MaxDuration}, {DefaultSeed}, {1},
                    1..MaxSpecDurationSec, 1..MaxCrop) :
    \E nrows \in IF c = ClsPerEegSubsample THEN RowCounts
                 ELSE {[e \in Eegs |-> MaxRows]} :
    \E sbase \in IF c = ClsPerEegSubsample THEN 0..1 ELSE {0} :
        /\ a.num_samples_per_eeg = 1
        /\ Constructed(c, a, MetadataTable(nrows, 1, sbase, 2),
                       [e \in Eegs |-> MaxFrames], Spectrograms(slens))

(***************************************************************************)
(* The methods.                                                            *)
(***************************************************************************)
\* __getitem__(i) for a valid index
GetItemCore(i) ==
    /\ i \in 0..(DatasetLen - 1)
    /\ LET r == GetItemResult(i, generator)
       IN  /\ data' = r.data
           /\ generator' = r.generator
           /\ call' = [idx |-> i, draws |-> r.draws]
    /\ UNCHANGED <<config, worker_gen, worker_start, construction, fn_vars,
                   optimizer>>

GetItem(i) == GetItemCore(i) /\ UNCHANGED <<first_pass, this_pass>>

\* ResetCore seeding from the default seed, not from self.seed
ResetCoreDefaultSeed ==
    /\ generator' = ManualSeed(DefaultSeed)
    /\ UNCHANGED <<config, call, data, worker_gen, worker_start, construction, fn_vars,
                   optimizer>>

\* HmsBaseDataset.reset
ResetCore ==
    /\ generator' = ManualSeed(args.seed)
    /\ UNCHANGED <<config, call, data, worker_gen, worker_start, construction, fn_vars,
                   optimizer>>

Reset == ResetCore /\ UNCHANGED <<first_pass, this_pass>>

MaxIndex == NumEegs * Max(MaxSamples, MaxFrames) - 1

Next ==
    \/ \E i \in 0..MaxIndex : GetItem(i)
    \/ Reset

Spec == Init /\ [][Next]_vars

(***************************************************************************)
(* Properties.                                                             *)
(***************************************************************************)
ChunksOfRecord(eeg_id) == SelectSeq(chunks, LAMBDA c : c[1] = eeg_id)

NumFrames(eeg_id) == Len(id2eeg[eeg_id])

\* the starts 0, s, 2s, ... of the windows of length d that fit in L frames
FittingStarts(L, d, s) == {st \in 0..L : st % s = 0 /\ st + d <= L}

C1_Example ==
    RecordChunks(1, 5000, 2048, 2048) = << <<1, 0, 2048>>, <<1, 2048, 4096>> >>

\* C1: the chunks of every record of a SlidingWindowEegDataset are exactly
\* the pairs (start, start + duration) for start = 0, stride, 2 stride, ...
\* with start + duration <= num_frames, in ascending order of start, none
\* when num_frames < duration; 5000 frames with duration and stride 2048
\* give exactly (0, 2048), (2048, 4096).
C1_GenerateChunks ==
    /\ C1_Example
    /\ cls = ClsSlidingWindowEeg =>
        \A e \in Eegs :
            LET mine == ChunksOfRecord(e)
                L == NumFrames(e)
                d == args.duration
                fit == FittingStarts(L, d, args.stride)
            IN  /\ {mine[k][2] : k \in 1..Len(mine)} = fit
                /\ Len(mine) = Cardinality(fit)
                /\ \A k \in 1..Len(mine) : mine[k][3] = mine[k][2] + d
                /\ \A k \in 1..(Len(mine) - 1) : mine[k][2] < mine[k + 1][2]
                /\ L < d => mine = << >>

\* a record with at least two chunks and a dropped trailing partial window
C1_Witness ==
    /\ cls = ClsSlidingWindowEeg
    /\ \E e \in Eegs :
        LET mine == ChunksOfRecord(e)
        IN  /\ Len(mine) >= 2
            /\ mine[Len(mine)][3] < NumFrames(e)
            /\ mine[Len(mine)][2] + args.stride < NumFrames(e)

\* the d frames of record eeg_id from frame st on
EegWindow(eeg_id, st, d) == [j \in 1..d |-> EegFrame(eeg_id, st + j - 1)]
CqfWindow(eeg_id, st, d) == [j \in 1..d |-> CqfFrame(eeg_id, st + j - 1)]

\* C2: sample_eeg on a record with num_frames >= duration returns exactly
\* num_samples windows; each is the slice [start, start + duration) of the
\* record for some 0 <= start <= num_frames - duration, and the signal and
\* the mask of one window are cut at the same start.
C2_SampleWindows ==
    (cls = ClsUniformSampling /\ data.status = "ok"
       /\ NumFrames(data.eeg_id) >= args.duration) =>
        LET L == NumFrames(data.eeg_id)
            d == args.duration
        IN  /\ Len(data.eeg) = args.num_samples_per_eeg
            /\ Len(data.cqf) = args.num_samples_per_eeg
            /\ \A k \in 1..Len(data.eeg) :
                \E st \in 0..(L - d) :
                    /\ data.eeg[k] = EegWindow(data.eeg_id, st, d)
                    /\ data.cqf[k] = CqfWindow(data.eeg_id, st, d)
            /\ Len(call.draws) = args.num_samples_per_eeg
            /\ \A k \in 1..Len(call.draws) :
                data.eeg[k] = EegWindow(data.eeg_id, call.draws[k], d)

\* one item whose two windows start at 0 and at num_frames - duration > 0
C2_Witness ==
    /\ cls = ClsUniformSampling
    /\ data.status = "ok"
    /\ NumFrames(data.eeg_id) > args.duration
    /\ \E k1, k2 \in 1..Len(data.eeg) :
        /\ data.eeg[k1] = EegWindow(data.eeg_id, 0, args.duration)
        /\ data.eeg[k2] = EegWindow(data.eeg_id,
                                    NumFrames(data.eeg_id) - args.duration,
                                    args.duration)

\* one item whose two windows are the same slice, of a record that has others
C2_Duplicates ==
    /\ cls = ClsUniformSampling
    /\ data.status = "ok"
    /\ NumFrames(data.eeg_id) > args.duration
    /\ Len(data.eeg) >= 2
    /\ data.eeg[1] = data.eeg[2]

\* sample_eeg on the record of the end-to-end scenario: 1500 frames,
\* duration 2048, right anchor
C3_Sampled ==
    sample_eeg(EegRecord(42, 1500), CqfRecord(42, 1500), 2048, "right", 1, 0)

C3_Example ==
    /\ Len(C3_Sampled.eeg) = 1
    /\ Len(C3_Sampled.eeg[1]) = 2048
    /\ Len(C3_Sampled.mask[1]) = 2048
    /\ \A j \in 1..1500 :
        /\ C3_Sampled.eeg[1][j] = EegFrame(42, j - 1)
        /\ C3_Sampled.mask[1][j] = CqfFrame(42, j - 1)
    /\ \A i \in 1..548 :
        /\ C3_Sampled.eeg[1][1500 + i] = EegFrame(42, 1499 - i)
        /\ C3_Sampled.mask[1][1500 + i] = 0

\* C3: random-mode sampling of a record shorter than the window, right
\* anchor, pads instead of slicing: every window has exactly duration rows,
\* the first num_frames rows are the record, the remaining rows are padding:
\* mirrored frames of the record in the signal, zeros in the mask; so for
\* 1500 frames and duration 2048, with 548 rows of padding.
C3_ShortRecordPadded ==
    /\ C3_Example
    /\ (cls = ClsUniformSampling /\ data.status = "ok"
          /\ NumFrames(data.eeg_id) < args.duration
          /\ args.padding_type = "right") =>
        LET L == NumFrames(data.eeg_id)
            d == args.duration
        IN  /\ Len(data.eeg) = args.num_samples_per_eeg
            /\ call.draws = << >>
            /\ \A k \in 1..Len(data.eeg) :
                /\ Len(data.eeg[k]) = d
                /\ Len(data.cqf[k]) = d
                /\ \A j \in 1..L :
                    /\ data.eeg[k][j] = EegFrame(data.eeg_id, j - 1)
                    /\ data.cqf[k][j] = CqfFrame(data.eeg_id, j - 1)
                /\ \A i \in 1..(d - L) :
                    /\ data.cqf[k][L + i] = 0
                    /\ data.eeg[k][L + i] \in
                           {EegFrame(data.eeg_id, f) : f \in 0..(L - 1)}
                    /\ i <= L - 1 =>
                           data.eeg[k][L + i] = EegFrame(data.eeg_id, L - 1 - i)

\* a padded item of a record of at least two frames
C3_Witness ==
    /\ cls = ClsUniformSampling
    /\ data.status = "ok"
    /\ args.padding_type = "right"
    /\ NumFrames(data.eeg_id) >= 2
    /\ NumFrames(data.eeg_id) < args.duration
    /\ Len(data.eeg[1]) = args.duration

\* C6: a PerEegSubsampleDataset has len(eeg_ids) * num_samples_per_eeg
\* items, eeg_ids is sorted ascending without duplicates, item i is of the
\* record eeg_ids[i // num_samples_per_eeg], and every record is served by
\* exactly num_samples_per_eeg consecutive indices.
C6_IndexToRecord ==
    cls = ClsPerEegSubsample =>
        LET n == args.num_samples_per_eeg
        IN  /\ DatasetLen = Len(eeg_ids) * n
            /\ \A k \in 1..(Len(eeg_ids) - 1) : eeg_ids[k] < eeg_ids[k + 1]
            /\ {eeg_ids[k] : k \in 1..Len(eeg_ids)}
                   = {metadata[r].eeg_id : r \in 1..Len(metadata)}
            /\ data.status = "ok" =>
                \E k \in 1..Len(eeg_ids) :
                    /\ data.eeg_id = eeg_ids[k]
                    /\ (k - 1) * n <= call.idx
                    /\ call.idx < k * n
            /\ \A k \in 1..Len(eeg_ids) :
                {i \in 0..(DatasetLen - 1) : SubsampleEegId(i) = eeg_ids[k]}
                    = ((k - 1) * n)..(k * n - 1)

\* the last index of the dataset served the last record, with more than one
\* sample per record
C6_Witness ==
    /\ cls = ClsPerEegSubsample
    /\ args.num_samples_per_eeg >= 2
    /\ data.status = "ok"
    /\ call.idx = DatasetLen - 1
    /\ data.eeg_id = eeg_ids[Len(eeg_ids)]

\* the records shorter than the window
C7_ShortRecords == {e \in Eegs : NumFrames(e) >= 1 /\ NumFrames(e) < args.duration}

\* C7: in the sliding-window datasets a record with 1 <= num_frames <
\* duration is padded to duration and yields exactly one window covering
\* the whole record: one chunk in SlidingWindowEegDataset, one window in
\* the item of SlidingWindowPerEegDataset.
C7_ShortRecordOneWindow ==
    /\ cls = ClsSlidingWindowEeg =>
        \A e \in C7_ShortRecords : Len(ChunksOfRecord(e)) = 1
    /\ (cls = ClsSlidingWindowPerEeg /\ data.status = "ok"
          /\ data.eeg_id \in C7_ShortRecords) =>
        /\ Len(data.eeg) = 1
        /\ Len(data.eeg[1]) = args.duration

\* the part of C7 that holds: SlidingWindowPerEegDataset
C7_PerEegShortRecordOneWindow ==
    (cls = ClsSlidingWindowPerEeg /\ data.status = "ok"
       /\ data.eeg_id \in C7_ShortRecords) =>
        /\ Len(data.eeg) = 1
        /\ Len(data.eeg[1]) = args.duration
        /\ args.padding_type = "right" =>
            \A j \in 1..NumFrames(data.eeg_id) :
                data.eeg[1][j] = EegFrame(data.eeg_id, j - 1)

\* the shape of an array along the modelled axes
IsStacked == cls \in {ClsSlidingWindowPerEeg, ClsUniformSampling}

ShapeOf(x) ==
    IF ~IsStacked THEN <<Len(x)>>
    ELSE IF Len(x) = 0 THEN <<0>>
    ELSE <<Len(x), Len(x[1])>>

C15_ChunkSet ==
    {<<e, st, st + args.duration>> :
        e \in {eeg_ids[k] : k \in 1..Len(eeg_ids)},
        st \in 0..MaxFrames} \cap
    {c \in (Eegs \X (0..MaxFrames) \X (0..(2 * MaxFrames))) :
        c[2] \in FittingStarts(NumFrames(c[1]), args.duration, args.stride)}

\* C15: the chunks of a SlidingWindowEegDataset are those computed at
\* construction, in ascending order of record id and then of start, and no
\* call changes them; __getitem__(index) returns the window of
\* chunks[index] of the record, with the record's label and weight, and
\* neither reads nor advances the generator: whatever calls came before,
\* and in whatever order, the sample of an index is the same.
C15_SlidingWindowLookup ==
    cls = ClsSlidingWindowEeg =>
        /\ \A k \in 1..(Len(chunks) - 1) :
            \/ chunks[k][1] < chunks[k + 1][1]
            \/ /\ chunks[k][1] = chunks[k + 1][1]
               /\ chunks[k][2] < chunks[k + 1][2]
        /\ {chunks[k] : k \in 1..Len(chunks)} = C15_ChunkSet
        /\ generator = ManualSeed(args.seed)
        /\ call.draws = << >>
        /\ call.idx >= 0 =>
            LET chunk == chunks[call.idx + 1]
            IN  /\ data.status = "ok"
                /\ data.eeg_id = chunk[1]
                /\ data.eeg = EegWindow(chunk[1], chunk[2], args.duration)
                /\ data.cqf = CqfWindow(chunk[1], chunk[2], args.duration)
                /\ chunk[3] = chunk[2] + args.duration
                /\ data.label = eeg_id2metadata[chunk[1]][1].prob_per_eeg
                /\ data.weight = eeg_id2metadata[chunk[1]][1].weight_per_eeg

\* the last chunk of the list was served: a window of the last record that
\* does not start at frame 0, in a list that holds chunks of two records
C15_Witness ==
    /\ cls = ClsSlidingWindowEeg
    /\ Len(chunks) >= 3
    /\ call.idx = Len(chunks) - 1
    /\ chunks[1][1] < chunks[Len(chunks)][1]
    /\ chunks[Len(chunks)][2] > 0
    /\ data.eeg[1] = EegFrame(chunks[Len(chunks)][1], chunks[Len(chunks)][2])

SpecSpectrogram == InitSpectrogram /\ [][Next]_vars

\* the record and the label row the last call served, in the two classes
\* that take spectrograms
ServedEegId ==
    IF cls = ClsPerEegSubsample
    THEN eeg_ids[(call.idx \div args.num_samples_per_eeg) + 1]
    ELSE eeg_ids[call.idx + 1]

ServedRow ==
    IF cls = ClsPerEegSubsample
    THEN eeg_id2metadata[ServedEegId][call.draws[1] + 1]
    ELSE eeg_id2metadata[ServedEegId][1]

\* the spectrogram window of the last call, before the crop
ServedSpecWidth == IntMul(args.spec_duration_sec, args.spec_sampling_rate)

ServedSpecStart ==
    IF cls = ClsPerEegSubsample
    THEN IntMul(ServedRow.spectrogram_label_offset_seconds, args.spec_sampling_rate)
    ELSE 0

ServedSpecEnd == ServedSpecStart + ServedSpecWidth

ServedSpecLen == Len(spec_id2spec.specs[ServedRow.spectrogram_id])

CropPathTaken ==
    /\ cls \in {ClsPerEeg, ClsPerEegSubsample}
    /\ ~spec_id2spec.is_none
    /\ call.idx >= 0
    /\ ServedSpecWidth > args.spec_cropped_duration

C4_Cropped == SpecWindow(SpecRecord(11, 400), IntMul(10, SpecSamplingRate),
                         IntMul(10, SpecSamplingRate) + IntMul(600, SpecSamplingRate),
                         256)

C4_Example ==
    /\ IntMul(600, SpecSamplingRate) = 300
    /\ 300 - 256 = 44
    /\ CropLeft(44) = 22
    /\ CropRight(44) = 22
    /\ C4_Cropped.ok
    /\ Len(C4_Cropped.bg_spec) = 256
    /\ C4_Cropped.bg_spec[1] = SpecFrame(11, 5 + 22)
    /\ C4_Cropped.bg_spec[256] = SpecFrame(11, 305 - 22 - 1)

\* C4: when the spectrogram window is wider than spec_cropped_duration,
\* excess // 2 frames are removed at its start and the rest of the excess
\* at its end (one more when the excess is odd), and when the record holds
\* the whole window the call succeeds with exactly spec_cropped_duration
\* frames; offset 10 s at rate 0.5 over 600 s cropped to 256 gives width
\* 300, excess 44, crops 22 and 22, final width 256.
C4_SymmetricCrop ==
    /\ C4_Example
    /\ (CropPathTaken /\ ServedSpecStart >= 0 /\ ServedSpecEnd <= ServedSpecLen) =>
        LET crop_to == args.spec_cropped_duration
            excess == ServedSpecWidth - crop_to
            left == excess \div 2
            right == excess - left
            sid == ServedRow.spectrogram_id
        IN  /\ right = left + (excess % 2)
            /\ data.status = "ok"
            /\ data.has_bg_spec
            /\ Len(data.bg_spec) = crop_to
            /\ data.bg_spec =
                   [j \in 1..crop_to |-> SpecFrame(sid, ServedSpecStart + left + j - 1)]
            /\ data.bg_spec[crop_to] = SpecFrame(sid, ServedSpecEnd - right - 1)

\* a crop with an odd excess of at least 3, of a window that does not start
\* at frame 0
C4_Witness ==
    /\ CropPathTaken
    /\ ServedSpecStart > 0
    /\ ServedSpecEnd <= ServedSpecLen
    /\ (ServedSpecWidth - args.spec_cropped_duration) % 2 = 1
    /\ ServedSpecWidth - args.spec_cropped_duration >= 3
    /\ data.status = "ok"

\* the width of the slice after the crop, from the lengths alone
C10_WidthAfterCrop ==
    LET excess == ServedSpecWidth - args.spec_cropped_duration
        left == excess \div 2
        right == excess - left
        n == Max(0, Min(ServedSpecEnd, ServedSpecLen) - Min(ServedSpecStart, ServedSpecLen))
    IN  Max(0, Max(n - right, 0) - Min(left, n))

\* C10: when the crop path is taken and the slice after the crop is not
\* spec_cropped_duration frames wide, __getitem__ raises the assertion and
\* returns no sample; a spectrogram that went through the crop path is
\* returned only with exactly spec_cropped_duration frames.
C10_CropSizeAssertion ==
    CropPathTaken =>
        /\ C10_WidthAfterCrop /= args.spec_cropped_duration
               => data.status = "AssertionError"
        /\ data.status = "ok" =>
               /\ data.has_bg_spec
               /\ Len(data.bg_spec) = args.spec_cropped_duration

\* the spectrogram ends inside the window and the call raised
C10_Witness ==
    /\ CropPathTaken
    /\ ServedSpecStart < ServedSpecLen
    /\ ServedSpecEnd > ServedSpecLen
    /\ data.status = "AssertionError"

\* C20: in PerEegSubsampleDataset.__getitem__ the signal window start, the
\* spectrogram id and the spectrogram window start, the label vector and
\* the weight of a returned sample all come from one label row, the one
\* the call drew, and that row is a row of the record the index selects.
C20_OneDrawnRow ==
    (cls = ClsPerEegSubsample /\ call.idx >= 0 /\ data.status = "ok") =>
        LET rows == eeg_id2metadata[ServedEegId]
            row == ServedRow
            start_frame == IntMul(row.eeg_label_offset_seconds, args.sampling_rate)
            width == IntMul(args.duration_sec, args.sampling_rate)
            excess == ServedSpecWidth - args.spec_cropped_duration
            left == IF excess > 0 THEN excess \div 2 ELSE 0
        IN  /\ Len(call.draws) = 1
            /\ call.draws[1] \in 0..(Len(rows) - 1)
            /\ row.eeg_id = ServedEegId
            /\ data.eeg_id = ServedEegId
            /\ \E r \in 1..Len(metadata) : metadata[r] = row
            /\ \A k \in 1..Min(width, NumFrames(data.eeg_id) - start_frame) :
                /\ data.eeg[k] = EegFrame(data.eeg_id, start_frame + k - 1)
                /\ data.cqf[k] = CqfFrame(data.eeg_id, start_frame + k - 1)
            /\ data.has_bg_spec = ~spec_id2spec.is_none
            /\ data.has_bg_spec =>
                \A k \in 1..Len(data.bg_spec) :
                    data.bg_spec[k] = SpecFrame(row.spectrogram_id,
                                                ServedSpecStart + left + k - 1)
            /\ data.label = row.prob
            /\ data.weight = RowWeight(row, args.weight_key)

\* the second row of a record was drawn, and the sample holds frames of the
\* signal and of the spectrogram
C20_Witness ==
    /\ cls = ClsPerEegSubsample
    /\ call.idx >= 0
    /\ data.status = "ok"
    /\ call.draws[1] = 1
    /\ ServedRow.eeg_label_offset_seconds > 0
    /\ ServedSpecStart > 0
    /\ data.has_bg_spec
    /\ Len(data.bg_spec) >= 2
    /\ data.eeg[1] /= EegFrame(data.eeg_id, 0)
    /\ data.label = ServedRow.prob

\* q is the floor of x * rate
IsFloorOf(q, x, rate) == q * rate.den <= x * rate.num /\ x * rate.num < (q + 1) * rate.den

\* the floor of x * rate, for x >= 0
FloorOf(x, rate) == CHOOSE q \in 0..(x * rate.num) : IsFloorOf(q, x, rate)

\* the frames [from, to) of a record of n frames, by Python's clipping
ClippedFrames(from, to, n) == {k \in 0..(n - 1) : from <= k /\ k < to}

\* C21: in PerEegSubsampleDataset.__getitem__ the spectrogram start frame
\* is int(spectrogram_label_offset_seconds * spec_sampling_rate) and the
\* end frame is start + int(spec_duration_sec * spec_sampling_rate),
\* likewise for the signal with eeg_label_offset_seconds, sampling_rate and
\* duration_sec; int truncates toward zero, which is the floor for
\* non-negative offsets, and end - start is the same for every label row.
\* The returned frames are those of the window so placed.
C21_FrameWindows ==
    /\ IntMul(-1, SpecSamplingRate) = 0
    /\ IntMul(-3, SpecSamplingRate) = -1
    /\ (cls = ClsPerEegSubsample /\ call.idx >= 0 /\ data.status = "ok") =>
        LET start_frame == FloorOf(ServedRow.eeg_label_offset_seconds,
                                   args.sampling_rate)
            width == FloorOf(args.duration_sec, args.sampling_rate)
            spec_start_frame == FloorOf(ServedRow.spectrogram_label_offset_seconds,
                                        args.spec_sampling_rate)
            spec_width == FloorOf(args.spec_duration_sec, args.spec_sampling_rate)
            excess == spec_width - args.spec_cropped_duration
            left == IF excess > 0 THEN excess \div 2 ELSE 0
            right == IF excess > 0 THEN excess - left ELSE 0
            kept == ClippedFrames(spec_start_frame, spec_start_frame + spec_width,
                                  ServedSpecLen)
        IN  /\ \A k \in ClippedFrames(start_frame, start_frame + width,
                                      NumFrames(data.eeg_id)) :
                data.eeg[k - start_frame + 1] = EegFrame(data.eeg_id, k)
            /\ Len(data.bg_spec) = Max(0, Cardinality(kept) - left - right)
            /\ \A j \in 1..Len(data.bg_spec) :
                data.bg_spec[j] = SpecFrame(ServedRow.spectrogram_id,
                                            spec_start_frame + left + j - 1)

\* the offset of the drawn row times the rate is not a whole number of
\* frames, the window starts after frame 0 and frames were returned
C21_Witness ==
    /\ cls = ClsPerEegSubsample
    /\ call.idx >= 0
    /\ data.status = "ok"
    /\ (ServedRow.spectrogram_label_offset_seconds * args.spec_sampling_rate.num)
           % args.spec_sampling_rate.den /= 0
    /\ ServedSpecStart > 0
    /\ Len(data.bg_spec) >= 2
    /\ data.bg_spec[1] = SpecFrame(ServedRow.spectrogram_id, ServedSpecStart)

\* C22: when the spectrogram window is at most spec_cropped_duration wide,
\* __getitem__ of PerEegDataset and PerEegSubsampleDataset removes no frame
\* and adds no padding: the call succeeds and the spectrogram returned is
\* exactly the slice [start_frame, end_frame) of the record, clipped to the
\* record's length, which may be narrower than spec_cropped_duration.
C22_NoCropNoPadding ==
    (cls \in {ClsPerEeg, ClsPerEegSubsample} /\ ~spec_id2spec.is_none
       /\ call.idx >= 0 /\ ServedSpecWidth <= args.spec_cropped_duration) =>
        LET from == Min(ServedSpecStart, ServedSpecLen)
            to == Max(from, Min(ServedSpecEnd, ServedSpecLen))
        IN  /\ data.status = "ok"
            /\ data.has_bg_spec
            /\ Len(data.bg_spec) = to - from
            /\ Len(data.bg_spec) <= ServedSpecWidth
            /\ \A j \in 1..(to - from) :
                data.bg_spec[j] = SpecFrame(ServedRow.spectrogram_id, from + j - 1)

\* a window exactly spec_cropped_duration wide that starts after frame 0
\* and runs over the end of the record: fewer frames than
\* spec_cropped_duration are returned
C22_Witness ==
    /\ cls = ClsPerEegSubsample
    /\ ~spec_id2spec.is_none
    /\ call.idx >= 0
    /\ ServedSpecWidth = args.spec_cropped_duration
    /\ ServedSpecStart > 0
    /\ ServedSpecEnd > ServedSpecLen
    /\ data.status = "ok"
    /\ Len(data.bg_spec) >= 1
    /\ Len(data.bg_spec) < args.spec_cropped_duration

\* C27: sample_eeg, and so UniformSamplingEegDataset.__getitem__, takes
\* exactly num_samples draws from the generator when the record has at
\* least duration frames and none when it is shorter; nothing else in
\* __getitem__ reads or advances the generator.  (Every step is reset(), or
\* a call after which the generator is that many draws on.)
C27_DrawsPerCall ==
    [][cls = ClsUniformSampling =>
          \/ /\ generator' = ManualSeed(args.seed)
             /\ call' = call
             /\ data' = data
          \/ /\ call'.idx \in 0..(DatasetLen - 1)
             /\ LET eeg_id == eeg_ids[call'.idx + 1]
                    n == IF NumFrames(eeg_id) >= args.duration
                         THEN args.num_samples_per_eeg ELSE 0
                IN  /\ generator' = (generator + n) % GenModulus
                    /\ Len(call'.draws) = n
                    /\ data'.status = "ok"
                    /\ data'.eeg_id = eeg_id
                    /\ Len(data'.eeg) = args.num_samples_per_eeg]_vars

\* two samples of a record shorter than the window were served when the
\* generator had already advanced: a call with draws came before
C27_Witness ==
    /\ cls = ClsUniformSampling
    /\ args.num_samples_per_eeg = 2
    /\ call.idx >= 0
    /\ NumFrames(eeg_ids[call.idx + 1]) < args.duration
    /\ call.draws = << >>
    /\ Len(data.eeg) = 2
    /\ generator = (ManualSeed(args.seed) + 2) % GenModulus

\* C28: every chunk of a SlidingWindowEegDataset satisfies
\* 0 <= start < end <= num_frames of its record and end - start = duration,
\* so every item has exactly duration frames, all of them frames of the
\* record: the pad_eeg call in __getitem__ never adds padding.
C28_ChunksInsideRecord ==
    cls = ClsSlidingWindowEeg =>
        /\ \A k \in 1..Len(chunks) :
            /\ chunks[k][1] \in DOMAIN id2eeg
            /\ 0 <= chunks[k][2]
            /\ chunks[k][2] < chunks[k][3]
            /\ chunks[k][3] <= Len(id2eeg[chunks[k][1]])
            /\ chunks[k][3] - chunks[k][2] = args.duration
        /\ call.idx >= 0 =>
            /\ data.status = "ok"
            /\ Len(data.eeg) = args.duration
            /\ Len(data.cqf) = args.duration
            /\ \A j \in 1..args.duration :
                /\ data.eeg[j] = id2eeg[data.eeg_id][chunks[call.idx + 1][2] + j]
                /\ data.cqf[j] = id2cqf[data.eeg_id][chunks[call.idx + 1][2] + j]
                /\ data.cqf[j] /= 0

\* the chunk that ends with the last frame of its record was served, a
\* window of more than one frame that does not start at frame 0
C28_Witness ==
    /\ cls = ClsSlidingWindowEeg
    /\ call.idx >= 0
    /\ args.duration >= 2
    /\ chunks[call.idx + 1][2] > 0
    /\ chunks[call.idx + 1][3] = Len(id2eeg[chunks[call.idx + 1][1]])
    /\ data.status = "ok"
    /\ Len(data.eeg) = args.duration

(***************************************************************************)
(* Caches that do not hold every record of the table: id2eeg, id2cqf and   *)
(* spec_id2spec are dicts handed to the constructor, which only            *)
(* SlidingWindowEegDataset reads (id2eeg, in _generate_chunks).            *)
(***************************************************************************)
PartialSpectrograms(have) ==
    [is_none |-> FALSE,
     specs |-> [sid \in {SpecIdOf(e) : e \in have} |-> SpecRecord(sid, MaxSpecFrames)]]

TakesSpectrograms(c) == c \in {ClsPerEeg, ClsPerEegSubsample}

InitMissing ==
    \E c \in Classes, have_eeg \in SUBSET Eegs, have_cqf \in SUBSET Eegs :
    \E specs \in IF TakesSpectrograms(c)
                 THEN {NoSpectrograms}
                          \cup {PartialSpectrograms(have) : have \in SUBSET Eegs}
                 ELSE {NoSpectrograms} :
    \E a \in ArgsOf(c, {"right"}, {MaxDuration}, {DefaultSeed}, {1}, {4}, {2}) :
        /\ a.num_samples_per_eeg = 1
        /\ a.stride = 1
        /\ c = ClsSlidingWindowEeg => have_eeg = Eegs
        /\ ConstructedFrom(c, a, MetadataTable([e \in Eegs |-> MaxRows], 1, 0, 2),
                           [e \in have_eeg |-> EegRecord(e, MaxFrames)],
                           [e \in have_cqf |-> CqfRecord(e, MaxFrames)], specs)

SpecMissing == InitMissing /\ [][Next]_vars

\* the record the index of the last call stands for
C17_ServedEegId ==
    CASE cls = ClsSlidingWindowEeg -> chunks[call.idx + 1][1]
      [] cls = ClsPerEegSubsample ->
             eeg_ids[(call.idx \div args.num_samples_per_eeg) + 1]
      [] OTHER -> eeg_ids[call.idx + 1]

C17_Missing(eeg_id) ==
    \/ eeg_id \notin DOMAIN id2eeg
    \/ eeg_id \notin DOMAIN id2cqf
    \/ /\ TakesSpectrograms(cls)
       /\ ~spec_id2spec.is_none
       /\ SpecIdOf(eeg_id) \notin DOMAIN spec_id2spec.specs

\* C17: __getitem__ for an index whose record id is missing in the signal
\* cache, in the mask cache or, with spectrograms configured, in the
\* spectrogram cache raises the missing-key error and returns nothing: no
\* partial and no substituted sample; an index whose record is in every
\* cache is served with that record.
C17_MissingRecordRaises ==
    call.idx >= 0 =>
        /\ C17_Missing(C17_ServedEegId) => data = Raised("KeyError")
        /\ ~C17_Missing(C17_ServedEegId) =>
            /\ data.status = "ok"
            /\ data.eeg_id = C17_ServedEegId

\* a record whose signal and mask are there and whose spectrogram is not,
\* next to a record that is complete
C17_Witness ==
    /\ cls = ClsPerEegSubsample
    /\ call.idx >= 0
    /\ C17_ServedEegId \in DOMAIN id2eeg
    /\ C17_ServedEegId \in DOMAIN id2cqf
    /\ ~spec_id2spec.is_none
    /\ SpecIdOf(C17_ServedEegId) \notin DOMAIN spec_id2spec.specs
    /\ \E e \in Eegs : ~C17_Missing(e)
    /\ data.status = "KeyError"

\* PerEegSubsampleDataset over caches of which one holds only the records
\* of have, with spectrogram windows that may run over the end of the
\* spectrogram: calls that raise next to calls that return
InitFailing ==
    \E have \in SUBSET Eegs, partial \in {"id2eeg", "id2cqf", "spec_id2spec"} :
    \E first_len \in {1, MaxFrames}, spec_duration_sec \in {4, 8} :
    \E a \in ArgsOf(ClsPerEegSubsample, {"right"}, {MaxDuration}, {DefaultSeed},
                    {1}, {spec_duration_sec}, {2}) :
        LET held(cache) == IF cache = partial THEN have ELSE Eegs
            len(e) == IF e = 1 THEN first_len ELSE MaxFrames
        IN  ConstructedFrom(ClsPerEegSubsample, a,
                            MetadataTable([e \in Eegs |-> MaxRows], 1, 0, 4),
                            [e \in held("id2eeg") |-> EegRecord(e, len(e))],
                            [e \in held("id2cqf") |-> CqfRecord(e, len(e))],
                            PartialSpectrograms(held("spec_id2spec")))

SpecFailing == InitFailing /\ [][Next]_vars

\* C26: every __getitem__ call of PerEegSubsampleDataset advances the
\* generator by exactly one draw, whatever the index, num_samples_per_eeg
\* or the record's length, and it draws before it looks up the signal, the
\* mask or the spectrogram and before the crop assertion: a call that
\* raises leaves the generator advanced by that draw all the same.  (Every
\* step is reset(), which leaves the last call and its result alone, or a
\* call that advances the generator by the one draw it records.)
C26_OneDrawPerCall ==
    [][cls = ClsPerEegSubsample =>
          \/ /\ generator' = ManualSeed(args.seed)
             /\ call' = call
             /\ data' = data
          \/ /\ generator' = GenNext(generator)
             /\ call'.idx \in 0..(DatasetLen - 1)
             /\ data'.status \in {"ok", "KeyError", "AssertionError"}
             /\ call'.draws =
                    <<RandintValue(Len(eeg_id2metadata[SubsampleEegId(call'.idx)]),
                                   generator)>>]_vars

\* the first call after seeding raised the assertion, in a dataset that
\* lacks the signal of another record, and the generator is one draw on
C26_Witness ==
    /\ cls = ClsPerEegSubsample
    /\ call.idx >= 0
    /\ data.status = "AssertionError"
    /\ \E e \in Eegs : e \notin DOMAIN id2eeg
    /\ args.num_samples_per_eeg >= 2
    /\ Len(call.draws) = 1
    /\ generator = GenNext(ManualSeed(args.seed))

(***************************************************************************)
(* Repeated passes: a first pass of at most MaxCalls calls, then reset()   *)
(* and the same calls again.  The history records every call with the      *)
(* generator state it started from and what it drew.                       *)
(***************************************************************************)
InitReset ==
    \E c \in {ClsUniformSampling, ClsPerEegSubsample}, lens \in RecordLengths :
    \E a \in ArgsOf(c, {"right"}, {MaxDuration}, Seeds, {1}, {1}, {1}) :
        LET md == MetadataTable([e \in Eegs |-> MaxRows], 1, 0, 0)
        IN  /\ c = ClsPerEegSubsample => OffsetsInside(md, lens, a.sampling_rate)
            /\ c = ClsPerEegSubsample => a.num_samples_per_eeg = 1
            /\ Constructed(c, a, md, lens, NoSpectrograms)

LoggedGetItem(i) ==
    /\ Len(this_pass) < MaxCalls
    /\ first_pass /= << >> =>
        /\ Len(this_pass) < Len(first_pass)
        /\ i = first_pass[Len(this_pass) + 1].idx
    /\ GetItemCore(i)
    /\ this_pass' = Append(this_pass,
                           [idx |-> i, draws |-> call'.draws, before |-> generator])
    /\ UNCHANGED first_pass

LoggedReset ==
    /\ ResetCore
    /\ first_pass' = IF first_pass = << >> THEN this_pass ELSE first_pass
    /\ this_pass' = << >>

NextReset ==
    \/ \E i \in 0..MaxIndex : LoggedGetItem(i)
    \/ LoggedReset

SpecReset == InitReset /\ [][NextReset]_vars

\* C5: reset() reseeds the generator from the seed the caller gave the
\* dataset and so returns it to its state right after construction,
\* whatever was called before; the same calls issued after a reset start
\* from the same generator states and draw the same rows / offsets as in
\* the first pass.
C5_ResetReplays ==
    /\ (first_pass /= << >> /\ this_pass = << >>) =>
           generator = first_pass[1].before
    /\ \A k \in 1..Len(this_pass) :
        (first_pass /= << >> /\ k <= Len(first_pass)) =>
            /\ this_pass[k].idx = first_pass[k].idx
            /\ this_pass[k].before = first_pass[k].before
            /\ this_pass[k].draws = first_pass[k].draws

\* a second pass of two calls that both drew, with a seed other than the
\* default one
C5_Witness ==
    /\ first_pass /= << >>
    /\ Len(this_pass) = Len(first_pass)
    /\ Len(this_pass) >= 2
    /\ args.seed /= DefaultSeed
    /\ this_pass[1].draws /= << >>
    /\ this_pass[2].draws /= << >>
    /\ this_pass[2].before /= this_pass[1].before

(***************************************************************************)
(* A DataLoader with NumWorkers workers: get_train_loader and              *)
(* get_valid_loader pass the dataset on with no worker_init_fn, so every   *)
(* worker works on a copy of the dataset as it is, generator included.     *)
(***************************************************************************)
Workers == 1..NumWorkers

InitLoader ==
    \E c \in {ClsUniformSampling, ClsPerEegSubsample} :
    \E a \in ArgsOf(c, {"right"}, {MaxDuration}, Seeds, {1}, {1}, {1}) :
        /\ a.num_samples_per_eeg = 1
        /\ Constructed(c, a, MetadataTable([e \in Eegs |-> MaxRows], 1, 0, 0),
                       [e \in Eegs |-> MaxFrames], NoSpectrograms)

StartWorkers ==
    /\ worker_gen = << >>
    /\ worker_gen' = [w \in Workers |-> generator]
    /\ worker_start' = [w \in Workers |-> generator]
    /\ UNCHANGED <<config, generator, call, data, first_pass, this_pass,
                   construction, fn_vars,
                   optimizer>>

\* __getitem__(i) on worker w's copy of the dataset
WorkerGetItem(w, i) ==
    /\ worker_gen /= << >>
    /\ i \in 0..(DatasetLen - 1)
    /\ LET r == GetItemResult(i, worker_gen[w])
       IN  /\ data' = r.data
           /\ call' = [idx |-> i, draws |-> r.draws]
           /\ worker_gen' = [worker_gen EXCEPT ![w] = r.generator]
    /\ UNCHANGED <<config, generator, first_pass, this_pass, worker_start,
                   construction, fn_vars,
                   optimizer>>

NextLoader ==
    \/ StartWorkers
    \/ \E w \in Workers, i \in 0..MaxIndex : WorkerGetItem(w, i)
    \/ \E i \in 0..MaxIndex : worker_gen = << >> /\ GetItem(i)

SpecLoader == InitLoader /\ [][NextLoader]_vars

\* C9: the workers of a pool never start from one and the same generator
\* state: each copy is seeded from a seed derived from the base seed and
\* the worker's index.
C9_WorkersSeededApart ==
    worker_start /= << >> =>
        \A w1, w2 \in Workers : w1 /= w2 => worker_start[w1] /= worker_start[w2]

(***************************************************************************)
(* The module-level functions and the nn.Modules, applied to inputs drawn  *)
(* by the initial state: no dataset is involved.                           *)
(***************************************************************************)
dataset_vars == <<config, generator, call, data, first_pass, this_pass,
                  worker_gen, worker_start, construction>>

NoDataset ==
    /\ cls = "none"
    /\ args = << >>
    /\ metadata = << >>
    /\ id2eeg = << >>
    /\ id2cqf = << >>
    /\ spec_id2spec = NoSpectrograms
    /\ eeg_ids = << >>
    /\ eeg_id2metadata = << >>
    /\ chunks = << >>
    /\ generator = 0
    /\ call = NoCall
    /\ data = NoItem
    /\ first_pass = << >>
    /\ this_pass = << >>
    /\ worker_gen = << >>
    /\ worker_start = << >>
    /\ pc = "none"
    /\ attrs = {}

(***************************************************************************)
(* pad_eeg on arrays of shape (L, C).  The padding runs along axis 0, so   *)
(* an array is held as its C columns and every column is padded by itself. *)
(***************************************************************************)
\* column c of a signal / a mask of L frames
EegColumn(c, L) == [k \in 1..L |-> 10 * (k - 1) + c]
CqfColumn(c, L) == [k \in 1..L |-> 1000 + 10 * (k - 1) + c]

InitPad ==
    \E L \in 1..MaxFrames, C \in 1..MaxChannels, d \in 1..MaxDuration,
       pt \in PaddingTypes :
        /\ NoDataset
        /\ NoOptimizer
        /\ fn_in = [eeg |-> [c \in 1..C |-> EegColumn(c, L)],
                    cqf |-> [c \in 1..C |-> CqfColumn(c, L)],
                    duration |-> d, padding_type |-> pt]
        /\ fn_out = NoResult

\* eeg, cqf = pad_eeg(eeg, cqf, duration, padding_type)
PadEeg ==
    /\ fn_out' = [name |-> "pad_eeg",
                  eeg |-> [c \in DOMAIN fn_in.eeg |->
                             pad_eeg(fn_in.eeg[c], fn_in.cqf[c], fn_in.duration,
                                     fn_in.padding_type).eeg],
                  cqf |-> [c \in DOMAIN fn_in.cqf |->
                             pad_eeg(fn_in.eeg[c], fn_in.cqf[c], fn_in.duration,
                                     fn_in.padding_type).cqf]]
    /\ UNCHANGED <<dataset_vars, optimizer, fn_in>>

NextPad == PadEeg

SpecPad == InitPad /\ [][NextPad]_vars

(***************************************************************************)
(* src/model/adapter/aggregate.py.  A tensor of shape (B, C, F, T) is the  *)
(* nested sequence x[b][c][f][t].  The quotient a / (m + eps) of the       *)
(* weighted mean is kept as the pair of a and m.                           *)
(***************************************************************************)
Shape4(x) == <<Len(x), Len(x[1]), Len(x[1][1]), Len(x[1][1][1])>>

RECURSIVE SeqSum(_)
SeqSum(xs) == IF xs = << >> THEN 0 ELSE Head(xs) + SeqSum(Tail(xs))

\* eps = 1e-4 is 1 / EpsInverse
EpsInverse == 10000

\* a / m, without eps
DivNoEps(a, m) ==
    [sum |-> a, sum_mask |-> m, num |-> a * EpsInverse, den |-> m * EpsInverse]

\* a / (m + self.eps), also as the fraction num / den of integers
DivEps(a, m) ==
    [sum |-> a, sum_mask |-> m, num |-> a * EpsInverse, den |-> m * EpsInverse + 1]

Failed(error) == [status |-> error, spec |-> << >>, mask |-> << >>]

\* ranges = [0, 4, 8, 10, 14, 18]
Ranges == <<0, 4, 8, 10, 14, 18>>

\* zip(range(C), zip(ranges[:-1], ranges[1:])): the groups the loop visits
GroupRanges(C) ==
    [i \in 1..Min(C, Len(Ranges) - 1) |->
        [start |-> Ranges[i], end |-> Ranges[i + 1]]]

\* SumSpec without the mask
SumSpecUnmasked(s, m, h, w) ==
    SeqSum([c \in 1..Len(s) |-> s[c][h][w]])

\* (spec[:, start:end] * mask[:, start:end]).sum(dim=1) at one (b, h, w)
SumSpec(s, m, h, w) ==
    SeqSum([c \in 1..Len(s) |-> s[c][h][w] * m[c][h][w]])

\* mask[:, start:end].sum(dim=1) at one (b, h, w)
SumMask(m, h, w) ==
    SeqSum([c \in 1..Len(m) |-> m[c][h][w]])

WeightedMeanAggregatorForward(spec, mask) ==
    LET B == Shape4(spec)[1]
        C == Shape4(spec)[2]
        H == Shape4(spec)[3]
        W == Shape4(spec)[4]
        groups == GroupRanges(C)
        s(b, g) == PySlice(spec[b], groups[g].start, groups[g].end)
        m(b, g) == PySlice(mask[b], groups[g].start, groups[g].end)
    IN  [status |-> "ok",
         spec |-> [b \in 1..B |-> [g \in 1..Len(groups) |->
                    [h \in 1..H |-> [w \in 1..W |->
                        DivEps(SumSpec(s(b, g), m(b, g), h, w),
                               SumMask(m(b, g), h, w))]]]],
         mask |-> [b \in 1..B |-> [g \in 1..Len(groups) |->
                    [h \in 1..H |-> [w \in 1..W |-> SumMask(m(b, g), h, w)]]]]]

\* RightGroups not mirrored
RightGroupsInOrder == <<2, 3, 4>>

\* spec[:, [0, 1, 2], ...] and spec[:, [4, 3, 2], ...]
LeftGroups == <<0, 1, 2>>

RightGroups == <<4, 3, 2>>

\* assert spec.shape[1] == 5
CollateChannels == 5

\* x[:, idx, ...]
TakeChannels(x, idx) ==
    [b \in 1..Len(x) |-> [k \in 1..Len(idx) |-> x[b][idx[k] + 1]]]

collate_lr_channels(spec, mask) ==
    IF Len(spec[1]) /= CollateChannels THEN Failed("AssertionError")
    ELSE [status |-> "ok",
          spec |-> TakeChannels(spec, LeftGroups) \o TakeChannels(spec, RightGroups),
          mask |-> TakeChannels(mask, LeftGroups) \o TakeChannels(mask, RightGroups)]

DualWeightedMeanAggregatorForward(spec, mask) ==
    LET r == WeightedMeanAggregatorForward(spec, mask)
    IN  collate_lr_channels(r.spec, r.mask)

\* pad_size = F * (4 - ch)
MaxGroupSize == 4

\* TilePadSize padding every group by one channel more
TilePadSizeOneMore(F, ch) == F * (MaxGroupSize + 1 - ch)

TilePadSize(F, ch) == F * (MaxGroupSize - ch)

\* Tile with the pattern "b c f t -> b (f c) t": the channels interleaved
TileInterleaved(xs, ch, F, T) ==
    [r \in 1..(ch * F + TilePadSize(F, ch)) |->
        IF r <= ch * F THEN xs[((r - 1) % ch) + 1][((r - 1) \div ch) + 1]
        ELSE [t \in 1..T |-> 0]]

\* rearrange(x[:, start:end], "b c f t -> b (c f) t", c=ch) of one batch
\* entry, then torch.nn.functional.pad(tile, (0, 0, 0, pad_size)): zeros
\* appended along the (c f) axis
Tile(xs, ch, F, T) ==
    [r \in 1..(ch * F + TilePadSize(F, ch)) |->
        IF r <= ch * F THEN xs[((r - 1) \div F) + 1][((r - 1) % F) + 1]
        ELSE [t \in 1..T |-> 0]]

TilingAggregatorForward(spec, mask) ==
    LET B == Shape4(spec)[1]
        C == Shape4(spec)[2]
        F == Shape4(spec)[3]
        T == Shape4(spec)[4]
        groups == GroupRanges(C)
        ch(g) == groups[g].end - groups[g].start
        s(b, g) == PySlice(spec[b], groups[g].start, groups[g].end)
        m(b, g) == PySlice(mask[b], groups[g].start, groups[g].end)
    IN  IF \E g \in 1..Len(groups) : Len(s(1, g)) /= ch(g)
        THEN Failed("EinopsError")
        ELSE [status |-> "ok",
              spec |-> [b \in 1..B |-> [g \in 1..Len(groups) |->
                         Tile(s(b, g), ch(g), F, T)]],
              mask |-> [b \in 1..B |-> [g \in 1..Len(groups) |->
                         Tile(m(b, g), ch(g), F, T)]]]

DualTilingAggregatorForward(spec, mask) ==
    LET r == TilingAggregatorForward(spec, mask)
    IN  IF r.status /= "ok" THEN r ELSE collate_lr_channels(r.spec, r.mask)

Aggregators == {"WeightedMeanAggregator", "DualWeightedMeanAggregator",
                "TilingAggregator", "DualTilingAggregator"}

AggregatorForward(aggregation_fn, spec, mask) ==
    CASE aggregation_fn = "WeightedMeanAggregator" ->
             WeightedMeanAggregatorForward(spec, mask)
      [] aggregation_fn = "DualWeightedMeanAggregator" ->
             DualWeightedMeanAggregatorForward(spec, mask)
      [] aggregation_fn = "TilingAggregator" ->
             TilingAggregatorForward(spec, mask)
      [] aggregation_fn = "DualTilingAggregator" ->
             DualTilingAggregatorForward(spec, mask)

\* the input tensors: every entry of spec tells its position, the entries
\* of mask are all one, all zero, or weights that vary with the position
SpecEntry(b, c, f, t) == 10000 * b + 100 * c + 10 * f + t

MaskKinds == {"ones", "zeros", "mixed"}

MaskEntry(kind, b, c, f, t) ==
    CASE kind = "ones" -> 1
      [] kind = "zeros" -> 0
      [] kind = "mixed" -> (b + c + f + t) % 3

Named(name, r) ==
    [name |-> name, status |-> r.status, spec |-> r.spec, mask |-> r.mask]

InitAggregate ==
    \E B \in 1..MaxBatch, C \in 1..MaxSpecChannels, F \in 1..MaxFreq,
       T \in 1..MaxTime, kind \in MaskKinds :
        /\ NoDataset
        /\ NoOptimizer
        /\ fn_in = [spec |-> [b \in 1..B |-> [c \in 1..C |-> [f \in 1..F |->
                               [t \in 1..T |-> SpecEntry(b, c, f, t)]]]],
                    mask |-> [b \in 1..B |-> [c \in 1..C |-> [f \in 1..F |->
                               [t \in 1..T |-> MaskEntry(kind, b, c, f, t)]]]]]
        /\ fn_out = Named("none", Failed("none"))

\* aggregation_fn(spec, mask)
Forward(aggregation_fn) ==
    /\ fn_out' = Named(aggregation_fn,
                       AggregatorForward(aggregation_fn, fn_in.spec, fn_in.mask))
    /\ UNCHANGED <<dataset_vars, optimizer, fn_in>>

\* collate_lr_channels(spec, mask) called on the input itself
Collate ==
    /\ fn_out' = Named("collate_lr_channels",
                       collate_lr_channels(fn_in.spec, fn_in.mask))
    /\ UNCHANGED <<dataset_vars, optimizer, fn_in>>

NextAggregate ==
    \/ \E aggregation_fn \in Aggregators : Forward(aggregation_fn)
    \/ Collate

SpecAggregate == InitAggregate /\ [][NextAggregate]_vars

\* the sum of val[c] over the channels c (counted from 0) of a set
RECURSIVE SumOver(_, _)
SumOver(S, val) ==
    IF S = {} THEN 0
    ELSE LET c == CHOOSE x \in S : TRUE
         IN  val[c] + SumOver(S \ {c}, val)

\* the channels (counted from 0) of group g that a tensor of C channels has
GroupChannels(g, C) == {c \in 0..(C - 1) : Ranges[g] <= c /\ c < Ranges[g + 1]}

\* the values of the weighted mean: output channel g is the sum of
\* signal * mask over the group's channels over (the sum of mask + eps),
\* output mask channel g the sum of mask
C12_GroupValues ==
    LET spec == fn_in.spec
        mask == fn_in.mask
        sh == Shape4(spec)
    IN  \A b \in 1..sh[1], g \in 1..Len(fn_out.spec[1]), h \in 1..sh[3],
           w \in 1..sh[4] :
            LET G == GroupChannels(g, sh[2])
                sm == [c \in G |-> spec[b][c + 1][h][w] * mask[b][c + 1][h][w]]
                m == [c \in G |-> mask[b][c + 1][h][w]]
            IN  /\ fn_out.spec[b][g][h][w] = DivEps(SumOver(G, sm), SumOver(G, m))
                /\ fn_out.mask[b][g][h][w] = SumOver(G, m)

\* C12 as stated: for every input of shape (B, C, H, W) the output signal
\* and the output mask of WeightedMeanAggregator.forward have shape
\* (B, 5, H, W), output channel g being the weighted mean of group g and
\* output mask channel g the sum of the group's mask.
C12_WeightedMean ==
    fn_out.name = "WeightedMeanAggregator" =>
        LET sh == Shape4(fn_in.spec)
        IN  /\ fn_out.status = "ok"
            /\ Shape4(fn_out.spec) = <<sh[1], 5, sh[3], sh[4]>>
            /\ Shape4(fn_out.mask) = <<sh[1], 5, sh[3], sh[4]>>
            /\ C12_GroupValues

\* C12 amended: for every input of shape (B, C, H, W) the output signal and
\* the output mask have shape (B, min(C, 5), H, W), so (B, 5, H, W) for
\* every input of at least 5 channels; output channel g is the sum, over
\* the channels of group g that the input has, of signal * mask divided by
\* (the sum of mask over these channels + eps), and output mask channel g
\* is that sum of mask.
C12_WeightedMeanGroups ==
    fn_out.name = "WeightedMeanAggregator" =>
        LET sh == Shape4(fn_in.spec)
        IN  /\ fn_out.status = "ok"
            /\ Shape4(fn_out.spec) = <<sh[1], Min(sh[2], 5), sh[3], sh[4]>>
            /\ Shape4(fn_out.mask) = <<sh[1], Min(sh[2], 5), sh[3], sh[4]>>
            /\ sh[2] >= 5 => Len(fn_out.spec[1]) = 5
            /\ C12_GroupValues

\* the weighted mean of at least 18 channels under a mask whose weights vary
C12_Witness ==
    /\ fn_out.name = "WeightedMeanAggregator"
    /\ Shape4(fn_in.spec)[2] >= 18
    /\ Shape4(fn_in.spec)[1] >= 2
    /\ \E g1, g2 \in 1..5 : fn_out.mask[2][g1][1][1] > fn_out.mask[2][g2][1][1]
    /\ fn_out.spec[2][5][1][1].sum > 0

\* C23: in WeightedMeanAggregator.forward, with non-negative mask values
\* and eps > 0, the divisor sum(mask[group]) + eps is never zero (it is at
\* least eps), and a group whose mask is zero on all its channels yields
\* exactly 0 in the output (0 over eps), with output mask 0.
C23_ZeroMaskGroup ==
    fn_out.name = "WeightedMeanAggregator" =>
        LET spec == fn_in.spec
            mask == fn_in.mask
            sh == Shape4(spec)
        IN  \A b \in 1..sh[1], g \in 1..Len(fn_out.spec[1]), h \in 1..sh[3],
               w \in 1..sh[4] :
                LET G == GroupChannels(g, sh[2])
                    q == fn_out.spec[b][g][h][w]
                IN  /\ \A c \in G : mask[b][c + 1][h][w] >= 0
                    /\ q.den >= 1
                    /\ q.den = fn_out.mask[b][g][h][w] * EpsInverse + 1
                    /\ (\A c \in G : mask[b][c + 1][h][w] = 0) =>
                           /\ q.num = 0
                           /\ q.den = 1
                           /\ fn_out.mask[b][g][h][w] = 0

\* all five groups of an input of 18 channels or more, whose signal is not
\* zero, under a mask that is zero everywhere
C23_Witness ==
    /\ fn_out.name = "WeightedMeanAggregator"
    /\ Shape4(fn_in.spec)[2] >= 18
    /\ Len(fn_out.spec[1]) = 5
    /\ \A g \in 1..5 : fn_out.mask[1][g][1][1] = 0 /\ fn_out.spec[1][g][1][1].num = 0
    /\ \A c \in 1..18 : fn_in.mask[1][c][1][1] = 0 /\ fn_in.spec[1][c][1][1] > 0

\* the groups of the 18 channels: first channel and size
C24_GroupStart == <<0, 4, 8, 10, 14>>
C24_GroupSize == <<4, 4, 2, 4, 4>>

\* out is x tiled: row r of group g is frequency bin (r - 1) mod F of the
\* group's channel (r - 1) div F, and a row of zeros after the group's last
\* channel
C24_Tiled(x, out, F, T) ==
    \A b \in 1..Len(x), g \in 1..5 :
        /\ Len(out[b][g]) = 4 * F
        /\ \A r \in 1..(4 * F), t \in 1..T :
            out[b][g][r][t] =
                IF r <= C24_GroupSize[g] * F
                THEN x[b][C24_GroupStart[g] + ((r - 1) \div F) + 1][((r - 1) % F) + 1][t]
                ELSE 0

\* C24: TilingAggregator.forward on an input (B, 18, F, T) returns a signal
\* and a mask of shape (B, 5, 4 F, T); in both, every group holds its
\* channels stacked along the frequency axis in channel order, followed by
\* F * (4 - group size) rows of zeros: 2 F rows for the Z group of two
\* channels, none for the groups of four.
C24_TilingLayout ==
    (fn_out.name = "TilingAggregator" /\ Shape4(fn_in.spec)[2] = 18) =>
        LET sh == Shape4(fn_in.spec)
        IN  /\ fn_out.status = "ok"
            /\ Shape4(fn_out.spec) = <<sh[1], 5, 4 * sh[3], sh[4]>>
            /\ Shape4(fn_out.mask) = <<sh[1], 5, 4 * sh[3], sh[4]>>
            /\ C24_Tiled(fn_in.spec, fn_out.spec, sh[3], sh[4])
            /\ C24_Tiled(fn_in.mask, fn_out.mask, sh[3], sh[4])
            /\ \A b \in 1..sh[1], r \in (2 * sh[3] + 1)..(4 * sh[3]), t \in 1..sh[4] :
                fn_out.spec[b][3][r][t] = 0 /\ fn_out.mask[b][3][r][t] = 0

\* a batch of two inputs of 18 channels and two frequency bins tiled under
\* a mask whose values vary
C24_Witness ==
    /\ fn_out.name = "TilingAggregator"
    /\ fn_out.status = "ok"
    /\ Shape4(fn_in.spec) = <<2, 18, 2, Shape4(fn_in.spec)[4]>>
    /\ fn_out.spec[2][3][4][1] = fn_in.spec[2][10][2][1]
    /\ fn_out.spec[2][3][5][1] = 0
    /\ fn_out.mask[2][1][1][1] /= fn_out.mask[2][1][2][1]

\* out is x with its groups (LL, LP, Z, RP, RL) rearranged: entry b holds
\* (LL, LP, Z) of x[b] and entry B + b holds (RL, RP, Z) of x[b]
C13_Rearranged(x, out) ==
    LET B == Len(x)
    IN  /\ Len(out) = 2 * B
        /\ \A b \in 1..B :
            /\ out[b] = <<x[b][1], x[b][2], x[b][3]>>
            /\ out[B + b] = <<x[b][5], x[b][4], x[b][3]>>

C14_SpatialExtentKept ==
    (fn_out.name \in Aggregators /\ fn_out.status = "ok") =>
        LET sh == Shape4(fn_in.spec)
        IN  /\ Shape4(fn_out.spec)[3] = sh[3]
            /\ Shape4(fn_out.spec)[4] = sh[4]
            /\ Shape4(fn_out.mask)[3] = sh[3]
            /\ Shape4(fn_out.mask)[4] = sh[4]

\* every entry of a tensor has the extent (F, T)
C14_Extent(x, F, T) ==
    \A b \in 1..Len(x) : \A g \in 1..Len(x[b]) :
        /\ Len(x[b][g]) = F
        /\ \A f \in 1..F : Len(x[b][g][f]) = T

\* C14 amended: no aggregation strategy changes the time extent of signal
\* and mask; the weighted mean and its stereo-doubled variant leave the
\* frequency extent unchanged too, while tiling and its stereo-doubled
\* variant return a frequency extent of 4 F (the channels of a group
\* stacked along the frequency axis, zero-padded to the largest group of 4
\* channels).  The batch extent is unchanged, and doubled by stereo-doubling.
C14_SpatialExtent ==
    (fn_out.name \in Aggregators /\ fn_out.status = "ok") =>
        LET sh == Shape4(fn_in.spec)
            tiled == fn_out.name \in {"TilingAggregator", "DualTilingAggregator"}
            dual == fn_out.name \in {"DualWeightedMeanAggregator",
                                     "DualTilingAggregator"}
            F == IF tiled THEN 4 * sh[3] ELSE sh[3]
        IN  /\ C14_Extent(fn_out.spec, F, sh[4])
            /\ C14_Extent(fn_out.mask, F, sh[4])
            /\ Len(fn_out.spec) = (IF dual THEN 2 * sh[1] ELSE sh[1])
            /\ Len(fn_out.mask) = Len(fn_out.spec)
            /\ \A b \in 1..Len(fn_out.spec) :
                /\ Len(fn_out.spec[b]) = (IF dual THEN 3 ELSE Min(sh[2], 5))
                /\ Len(fn_out.mask[b]) = Len(fn_out.spec[b])

\* a batch of two tiled and stereo-doubled, with more than one frequency bin
C14_Witness ==
    /\ fn_out.name = "DualTilingAggregator"
    /\ fn_out.status = "ok"
    /\ Len(fn_in.spec) = 2
    /\ Shape4(fn_in.spec)[3] >= 2
    /\ Shape4(fn_out.spec)[3] > Shape4(fn_in.spec)[3]

(***************************************************************************)
(* src/infer_util.py: load_metadata(phase="train", group_by_eeg=...) from  *)
(* the table that process_label returned on.  A float quotient n / d is    *)
(* kept as the fraction of n and d; a probability is a whole number of     *)
(* units (votes out of a fixed total).                                     *)
(***************************************************************************)
LABELS == <<"seizure", "lpd", "gpd", "lrda", "grda", "other">>

Frac(n, d) == [num |-> n, den |-> d]

\* one row of train.csv after process_label: row i of the table
TrainRow(i, eeg_id, weight) ==
    [eeg_id |-> eeg_id,
     spectrogram_id |-> 100 * eeg_id + i,
     label_id |-> 1000 * eeg_id + i,
     weight |-> weight,
     prob |-> [l \in 1..Len(LABELS) |-> (i * l + eeg_id) % 4]]

\* with_columns(pl.col(f"{label}_prob").mul(pl.col("weight")))
MulByWeight(md) ==
    [i \in 1..Len(md) |->
        [md[i] EXCEPT !.prob = [l \in 1..Len(LABELS) |-> md[i].prob[l] * md[i].weight]]]

\* NormalizedProb dividing by the column "weight", which holds the mean
NormalizedProbByMean(prob_sum, weight_mean, weight_sum) ==
    Frac(prob_sum * weight_mean.den, weight_mean.num)

\* pl.col(f"{label}_prob").truediv(pl.col("weight_sum"))
NormalizedProb(prob_sum, weight_mean, weight_sum) == Frac(prob_sum, weight_sum)

\* groupby("eeg_id", maintain_order=True).agg(...).with_columns(...) of the
\* rows of one record
AggregateRows(rows) ==
    LET weight_mean == Frac(SeqSum([i \in 1..Len(rows) |-> rows[i].weight]), Len(rows))
        weight_sum == SeqSum([i \in 1..Len(rows) |-> rows[i].weight])
        prob_sum(l) == SeqSum([i \in 1..Len(rows) |-> rows[i].prob[l]])
    IN  [eeg_id |-> rows[1].eeg_id,
         spectrogram_id |-> rows[1].spectrogram_id,
         label_id |-> rows[1].label_id,
         weight |-> weight_mean,
         weight_sum |-> weight_sum,
         prob |-> [l \in 1..Len(LABELS) |->
                     NormalizedProb(prob_sum(l), weight_mean, weight_sum)]]

load_metadata(md, group_by_eeg) ==
    IF group_by_eeg
    THEN LET weighted == MulByWeight(md)
             first == SortedSeq(FirstIndexes(weighted))
         IN  [k \in 1..Len(first) |->
                AggregateRows(RowsOf(weighted, weighted[first[k]].eeg_id))]
    ELSE md

\* the tables: up to MaxTableRows rows, of any record and weight each
TrainTables ==
    UNION {[1..n -> (Eegs \X (1..MaxWeight))] : n \in 1..MaxTableRows}

InitLoad ==
    \E t \in TrainTables :
        /\ NoDataset
        /\ NoOptimizer
        /\ fn_in = [metadata |-> [i \in 1..Len(t) |-> TrainRow(i, t[i][1], t[i][2])]]
        /\ fn_out = [name |-> "none", group_by_eeg |-> FALSE, metadata |-> << >>]

LoadMetadata(group_by_eeg) ==
    /\ fn_out' = [name |-> "load_metadata", group_by_eeg |-> group_by_eeg,
                  metadata |-> load_metadata(fn_in.metadata, group_by_eeg)]
    /\ UNCHANGED <<dataset_vars, optimizer, fn_in>>

NextLoad == \E group_by_eeg \in BOOLEAN : LoadMetadata(group_by_eeg)

SpecLoad == InitLoad /\ [][NextLoad]_vars

\* a / b = c / d
FracEq(x, y) == x.num * y.den = y.num * x.den

\* the indexes of the rows of record eeg_id in the table that was loaded
C16_RowsOf(eeg_id) ==
    {i \in 1..Len(fn_in.metadata) : fn_in.metadata[i].eeg_id = eeg_id}

\* C16: load_metadata with group_by_eeg returns one row per record id; the
\* probability of each class in the row of a record is
\* sum_i(weight_i * prob_i) / sum_i(weight_i) over the label rows i of the
\* record; the row carries the mean of these weights as 'weight' and their
\* sum as 'weight_sum'.
C16_GroupByEeg ==
    (fn_out.name = "load_metadata" /\ fn_out.group_by_eeg) =>
        LET out == fn_out.metadata
            md == fn_in.metadata
        IN  /\ {out[k].eeg_id : k \in 1..Len(out)} = {md[i].eeg_id : i \in 1..Len(md)}
            /\ \A k1, k2 \in 1..Len(out) : out[k1].eeg_id = out[k2].eeg_id => k1 = k2
            /\ \A k \in 1..Len(out) :
                LET I == C16_RowsOf(out[k].eeg_id)
                    w == [i \in I |-> md[i].weight]
                IN  /\ \A l \in 1..Len(LABELS) :
                        FracEq(out[k].prob[l],
                               Frac(SumOver(I, [i \in I |-> md[i].weight * md[i].prob[l]]),
                                    SumOver(I, w)))
                    /\ FracEq(out[k].weight, Frac(SumOver(I, w), Cardinality(I)))
                    /\ out[k].weight_sum = SumOver(I, w)

\* a record of at least two rows of different weight and different
\* probability, whose mean weight is not its summed weight
C16_Witness ==
    /\ fn_out.name = "load_metadata"
    /\ fn_out.group_by_eeg
    /\ Len(fn_out.metadata) >= 2
    /\ \E k \in 1..Len(fn_out.metadata) :
        LET I == C16_RowsOf(fn_out.metadata[k].eeg_id)
        IN  /\ \E i, j \in I : /\ fn_in.metadata[i].weight /= fn_in.metadata[j].weight
                               /\ fn_in.metadata[i].prob /= fn_in.metadata[j].prob
            /\ ~FracEq(fn_out.metadata[k].weight, Frac(fn_out.metadata[k].weight_sum, 1))

(***************************************************************************)
(* src/transform/eeg_channel.py: the channel transforms, on the last axis  *)
(* of feature and mask (one entry per probe).  torch.randperm gives any    *)
(* permutation; the two it gives to channel_permutation are part of the    *)
(* input.                                                                  *)
(***************************************************************************)
PROBE2IDX ==
    [Fp1 |-> 0, F3 |-> 1, C3 |-> 2, P3 |-> 3, F7 |-> 4, T3 |-> 5, T5 |-> 6,
     O1 |-> 7, Fz |-> 8, Cz |-> 9, Pz |-> 10, Fp2 |-> 11, F4 |-> 12, C4 |-> 13,
     P4 |-> 14, F8 |-> 15, T4 |-> 16, T6 |-> 17, O2 |-> 18, EKG |-> 19]

LR_CORRESPONDENCE ==
    << <<"Fp1", "Fp2">>, <<"F3", "F4">>, <<"C3", "C4">>, <<"P3", "P4">>,
       <<"F7", "F8">>, <<"T3", "T4">>, <<"T5", "T6">>, <<"O1", "O2">> >>

FR_CORRESPONDENCE ==
    << <<"Fp1", "O1">>, <<"Fp2", "O2">>, <<"F7", "T5">>, <<"F3", "P3">>,
       <<"Fz", "Pz">>, <<"F4", "P4">>, <<"F8", "T6">> >>

CENTRAL_CHANNELS == <<"Fz", "Cz", "Pz">>

\* x[..., [src_idx, dst_idx]] = x[..., [dst_idx, src_idx]].copy()
SwapPair(x, src_idx, dst_idx) ==
    [x EXCEPT ![src_idx + 1] = x[dst_idx + 1], ![dst_idx + 1] = x[src_idx + 1]]

\* the loop of _swap_channels over one array
RECURSIVE SwapAll(_, _)
SwapAll(x, correspondences) ==
    IF correspondences = << >> THEN x
    ELSE SwapAll(SwapPair(x, PROBE2IDX[correspondences[1][1]],
                          PROBE2IDX[correspondences[1][2]]),
                 Tail(correspondences))

\* _swap_channels assigning to the arrays it was given
swap_channels_InPlace(feature, mask, correspondences) ==
    [feature |-> SwapAll(feature, correspondences),
     mask |-> SwapAll(mask, correspondences),
     arg_feature |-> SwapAll(feature, correspondences),
     arg_mask |-> SwapAll(mask, correspondences)]

\* _swap_channels: feature, mask = feature.copy(), mask.copy(), and the loop
\* assigns to the copies; arg_feature and arg_mask are the arrays of the
\* caller when the function returns
swap_channels(feature, mask, correspondences) ==
    [feature |-> SwapAll(feature, correspondences),
     mask |-> SwapAll(mask, correspondences),
     arg_feature |-> feature,
     arg_mask |-> mask]

swap_lr(feature, mask) == swap_channels(feature, mask, LR_CORRESPONDENCE)

swap_fr(feature, mask) == swap_channels(feature, mask, FR_CORRESPONDENCE)

\* x[..., idxs] = x[..., idxs[perm]].copy()
AssignPermuted(x, idxs, perm) ==
    [c \in 1..Len(x) |->
        IF \E k \in 1..Len(idxs) : idxs[k] + 1 = c
        THEN LET k == CHOOSE k \in 1..Len(idxs) : idxs[k] + 1 = c
             IN  x[idxs[perm[k] + 1] + 1]
        ELSE x[c]]

\* channel_permutation leaving the right side of the mask as it was
channel_permutation_MaskLeftOnly(feature, mask, perm, central_perm) ==
    LET left_idxs == [k \in 1..Len(LR_CORRESPONDENCE) |->
                        PROBE2IDX[LR_CORRESPONDENCE[k][1]]]
        right_idxs == [k \in 1..Len(LR_CORRESPONDENCE) |->
                         PROBE2IDX[LR_CORRESPONDENCE[k][2]]]
        central_idxs == [k \in 1..Len(CENTRAL_CHANNELS) |->
                           PROBE2IDX[CENTRAL_CHANNELS[k]]]
    IN  [feature |-> AssignPermuted(
                         AssignPermuted(AssignPermuted(feature, left_idxs, perm),
                                        right_idxs, perm),
                         central_idxs, central_perm),
         mask |-> AssignPermuted(AssignPermuted(mask, left_idxs, perm),
                                 central_idxs, central_perm)]

\* channel_permutation; perm and central_perm are what the two calls of
\* torch.randperm return
channel_permutation(feature, mask, perm, central_perm) ==
    LET left_idxs == [k \in 1..Len(LR_CORRESPONDENCE) |->
                        PROBE2IDX[LR_CORRESPONDENCE[k][1]]]
        right_idxs == [k \in 1..Len(LR_CORRESPONDENCE) |->
                         PROBE2IDX[LR_CORRESPONDENCE[k][2]]]
        central_idxs == [k \in 1..Len(CENTRAL_CHANNELS) |->
                           PROBE2IDX[CENTRAL_CHANNELS[k]]]
    IN  [feature |-> AssignPermuted(
                         AssignPermuted(AssignPermuted(feature, left_idxs, perm),
                                        right_idxs, perm),
                         central_idxs, central_perm),
         mask |-> AssignPermuted(
                      AssignPermuted(AssignPermuted(mask, left_idxs, perm),
                                     right_idxs, perm),
                      central_idxs, central_perm)]

\* torch.randperm(n): the permutations of 0..n-1 that move at most MaxMoved
\* entries
RandPerms(n) ==
    {[k \in 1..n |-> p[k] - 1] :
        p \in {q \in Permutations(1..n) :
                 Cardinality({k \in 1..n : q[k] /= k}) <= MaxMoved}}

LrPerms == RandPerms(Len(LR_CORRESPONDENCE))

CentralPerms == RandPerms(Len(CENTRAL_CHANNELS))

NumProbes == Cardinality(DOMAIN PROBE2IDX)

\* feat = np.array(list(PROBE2IDX.keys())): every entry names its probe; the
\* mask is the same array, or one of other entries
ProbeFeature == [c \in 1..NumProbes |-> c - 1]

ProbeMasks == {ProbeFeature, [c \in 1..NumProbes |-> 100 + (c % 2)]}

Transforms == {"SwapLr", "SwapFr", "ChannelPermutation"}

InitTransform ==
    \E mask \in ProbeMasks, perm \in LrPerms, central_perm \in CentralPerms :
        /\ NoDataset
        /\ NoOptimizer
        /\ fn_in = [feature |-> ProbeFeature, mask |-> mask,
                    perm |-> perm, central_perm |-> central_perm]
        /\ fn_out = [name |-> "none", feature |-> << >>, mask |-> << >>]

\* transform_cls(p=1.0)(feat, mask): apply is called
Apply(transform_cls) ==
    /\ LET r == CASE transform_cls = "SwapLr" -> swap_lr(fn_in.feature, fn_in.mask)
                  [] transform_cls = "SwapFr" -> swap_fr(fn_in.feature, fn_in.mask)
                  [] transform_cls = "ChannelPermutation" ->
                         channel_permutation(fn_in.feature, fn_in.mask,
                                             fn_in.perm, fn_in.central_perm)
       IN  fn_out' = [name |-> transform_cls, feature |-> r.feature, mask |-> r.mask]
    /\ UNCHANGED <<dataset_vars, optimizer, fn_in>>

NextTransform == \E transform_cls \in Transforms : Apply(transform_cls)

SpecTransform == InitTransform /\ [][NextTransform]_vars

MaxSwaps == 3

Swaps == {"swap_lr", "swap_fr"}

IdentityPerm(n) == [k \in 1..n |-> k - 1]

\* arrays whose channels are in any order torch.randperm could have left
\* them in, the mask equal to the feature or of other entries; the caller
\* keeps them, and given_feature and given_mask record what they held
InitSwap ==
    \E perm \in LrPerms, same \in BOOLEAN :
        LET x == channel_permutation(ProbeFeature, ProbeFeature, perm,
                                     IdentityPerm(Len(CENTRAL_CHANNELS))).feature
            m == IF same THEN x ELSE [c \in 1..NumProbes |-> 100 + (x[c] % 3)]
        IN  /\ NoDataset
            /\ NoOptimizer
            /\ fn_in = [feature |-> x, mask |-> m,
                        given_feature |-> x, given_mask |-> m]
            /\ fn_out = [name |-> "none", times |-> 0, feature |-> << >>,
                         mask |-> << >>]

SwapBy(fn, feature, mask) ==
    IF fn = "swap_lr" THEN swap_lr(feature, mask) ELSE swap_fr(feature, mask)

\* feat_aug, mask_aug = fn(feat, mask)
Swap(fn) ==
    /\ fn_out.name = "none"
    /\ LET r == SwapBy(fn, fn_in.feature, fn_in.mask)
       IN  /\ fn_out' = [name |-> fn, times |-> 1, feature |-> r.feature,
                         mask |-> r.mask]
           /\ fn_in' = [fn_in EXCEPT !.feature = r.arg_feature,
                                     !.mask = r.arg_mask]
    /\ UNCHANGED <<dataset_vars, optimizer>>

\* fn applied once more, to what it returned
SwapAgain(fn) ==
    /\ fn_out.name = fn
    /\ fn_out.times < MaxSwaps
    /\ LET r == SwapBy(fn, fn_out.feature, fn_out.mask)
       IN  fn_out' = [name |-> fn, times |-> fn_out.times + 1,
                      feature |-> r.feature, mask |-> r.mask]
    /\ UNCHANGED <<dataset_vars, optimizer, fn_in>>

NextSwap == \E fn \in Swaps : Swap(fn) \/ SwapAgain(fn)

SpecSwap == InitSwap /\ [][NextSwap]_vars

\* the pairs a swap lists and the probes it does not list
C30_Pairs(fn) == IF fn = "swap_lr" THEN LR_CORRESPONDENCE ELSE FR_CORRESPONDENCE

C30_Unlisted(fn) ==
    IF fn = "swap_lr" THEN {"Fz", "Cz", "Pz", "EKG"}
    ELSE {"C3", "Cz", "C4", "T3", "T4", "EKG"}

\* out is x with the two channels of every listed pair exchanged and every
\* other channel at its index
C30_Swapped(x, out, fn) ==
    /\ Len(out) = Len(x)
    /\ \A k \in 1..Len(C30_Pairs(fn)) :
        LET a == PROBE2IDX[C30_Pairs(fn)[k][1]] + 1
            b == PROBE2IDX[C30_Pairs(fn)[k][2]] + 1
        IN  out[a] = x[b] /\ out[b] = x[a]
    /\ \A probe \in C30_Unlisted(fn) :
        out[PROBE2IDX[probe] + 1] = x[PROBE2IDX[probe] + 1]

\* C30: swap_lr and swap_fr are involutions that permute the channels:
\* applied once they exchange the channels of every listed pair and leave
\* every other channel (for swap_lr: Fz, Cz, Pz and EKG) at its index,
\* applied twice they return the original feature and mask; the arrays
\* given to them are not modified, the outputs being copies.
C30_SwapInvolution ==
    fn_out.name \in Swaps =>
        /\ fn_in.feature = fn_in.given_feature
        /\ fn_in.mask = fn_in.given_mask
        /\ DOMAIN PROBE2IDX =
               C30_Unlisted(fn_out.name)
                   \cup {C30_Pairs(fn_out.name)[k][i] :
                            k \in 1..Len(C30_Pairs(fn_out.name)), i \in 1..2}
        /\ fn_out.times % 2 = 1 =>
               /\ C30_Swapped(fn_in.given_feature, fn_out.feature, fn_out.name)
               /\ C30_Swapped(fn_in.given_mask, fn_out.mask, fn_out.name)
        /\ fn_out.times % 2 = 0 =>
               /\ fn_out.feature = fn_in.given_feature
               /\ fn_out.mask = fn_in.given_mask

\* swap_fr applied twice to arrays that one application changes, the mask
\* differing from the feature
C30_Witness ==
    /\ fn_out.name = "swap_fr"
    /\ fn_out.times = 2
    /\ fn_in.mask /= fn_in.feature
    /\ fn_in.feature /= ProbeFeature
    /\ swap_fr(fn_in.feature, fn_in.mask).feature /= fn_in.feature
    /\ swap_fr(fn_in.feature, fn_in.mask).mask /= fn_in.mask
    /\ fn_out.feature = fn_in.feature

\* C18: SwapLr, SwapFr and ChannelPermutation applied with p = 1 rearrange
\* the feature and the mask by one and the same permutation of the
\* channels, whatever torch.randperm returns: the feature comes out as a
\* permutation of the channels, every entry of the mask comes from the
\* channel the feature's entry comes from, and a mask that equals the
\* feature on input equals it on output.
C18_SamePermutation ==
    fn_out.name \in Transforms =>
        /\ Len(fn_out.feature) = NumProbes
        /\ Len(fn_out.mask) = NumProbes
        /\ {fn_out.feature[c] : c \in 1..NumProbes} = 0..(NumProbes - 1)
        /\ \A c \in 1..NumProbes : fn_out.mask[c] = fn_in.mask[fn_out.feature[c] + 1]
        /\ fn_in.mask = fn_in.feature => fn_out.mask = fn_out.feature

\* a permutation that moves three of the left-right pairs and the central
\* channels, applied to a mask equal to the feature
C18_Witness ==
    /\ fn_out.name = "ChannelPermutation"
    /\ fn_in.mask = fn_in.feature
    /\ Cardinality({k \in 1..Len(fn_in.perm) : fn_in.perm[k] /= k - 1}) = 3
    /\ fn_in.central_perm /= <<0, 1, 2>>
    /\ fn_out.feature[PROBE2IDX["Fp1"] + 1] /= PROBE2IDX["Fp1"]
    /\ fn_out.feature[PROBE2IDX["Fp2"] + 1] /= PROBE2IDX["Fp2"]
    /\ fn_out.mask = fn_out.feature

(***************************************************************************)
(* src/model/eeg_adapter/collate.py: the signal x[b][c][t] of b records,   *)
(* 18 channels or more and t frames, split into its left and right side.   *)
(***************************************************************************)
\* torch.cat([...], dim=1) of the slices of one record's channels
dual_stack_eeg_channels(x, drop_z) ==
    LET ll(b) == PySlice(x[b], 0, 4)
        lp(b) == PySlice(x[b], 4, 8)
        z(b) == PySlice(x[b], 8, 10)
        rp(b) == PySlice(x[b], 10, 14)
        rl(b) == PySlice(x[b], 14, 18)
        left(b) == IF drop_z THEN ll(b) \o lp(b) ELSE (ll(b) \o lp(b)) \o z(b)
        right(b) == IF drop_z THEN rl(b) \o rp(b) ELSE (rl(b) \o rp(b)) \o z(b)
    IN  <<[b \in 1..Len(x) |-> left(b)], [b \in 1..Len(x) |-> right(b)]>>

\* rearrange with the pattern "d b c t -> (b d) c t"
FlattenSidesInterleaved(x) ==
    LET D == Len(x)
        B == Len(x[1])
    IN  [i \in 1..(D * B) |-> x[((i - 1) % D) + 1][((i - 1) \div D) + 1]]

\* rearrange(x, "d b c t -> (d b) c t")
FlattenSides(x) ==
    LET D == Len(x)
        B == Len(x[1])
    IN  [i \in 1..(D * B) |-> x[((i - 1) \div B) + 1][((i - 1) % B) + 1]]

\* EegDualStackingCollator(drop_z).forward
EegDualStackingCollatorForward(eeg, eeg_mask, drop_z) ==
    [eeg |-> FlattenSides(dual_stack_eeg_channels(eeg, drop_z)),
     eeg_mask |-> FlattenSides(dual_stack_eeg_channels(eeg_mask, drop_z))]

MinEegChannels == 18

EegEntry(b, c, t) == 1000 * b + 10 * c + t

InitCollate ==
    \E B \in 1..MaxBatch, C \in MinEegChannels..MaxSpecChannels, T \in 1..MaxTime,
       kind \in MaskKinds :
        /\ NoDataset
        /\ NoOptimizer
        /\ fn_in = [eeg |-> [b \in 1..B |-> [c \in 1..C |->
                              [t \in 1..T |-> EegEntry(b, c, t)]]],
                    eeg_mask |-> [b \in 1..B |-> [c \in 1..C |->
                                   [t \in 1..T |-> MaskEntry(kind, b, c, 1, t)]]]]
        /\ fn_out = [name |-> "none", drop_z |-> FALSE, eeg |-> << >>,
                     eeg_mask |-> << >>]

\* dual_stack_eeg_channels(x, drop_z) of the signal and of the mask
DualStack(drop_z) ==
    /\ fn_out' = [name |-> "dual_stack_eeg_channels", drop_z |-> drop_z,
                  eeg |-> dual_stack_eeg_channels(fn_in.eeg, drop_z),
                  eeg_mask |-> dual_stack_eeg_channels(fn_in.eeg_mask, drop_z)]
    /\ UNCHANGED <<dataset_vars, optimizer, fn_in>>

\* EegDualStackingCollator(drop_z)(eeg, eeg_mask)
StackingCollator(drop_z) ==
    /\ LET r == EegDualStackingCollatorForward(fn_in.eeg, fn_in.eeg_mask, drop_z)
       IN  fn_out' = [name |-> "EegDualStackingCollator", drop_z |-> drop_z,
                      eeg |-> r.eeg, eeg_mask |-> r.eeg_mask]
    /\ UNCHANGED <<dataset_vars, optimizer, fn_in>>

NextCollate ==
    \/ \E drop_z \in BOOLEAN : DualStack(drop_z)
    \/ \E drop_z \in BOOLEAN : StackingCollator(drop_z)

SpecCollate == InitCollate /\ [][NextCollate]_vars

\* the input channels of the left and of the right side, in output order
C25_Left(drop_z) ==
    IF drop_z THEN <<0, 1, 2, 3, 4, 5, 6, 7>> ELSE <<0, 1, 2, 3, 4, 5, 6, 7, 8, 9>>

C25_Right(drop_z) ==
    IF drop_z THEN <<14, 15, 16, 17, 10, 11, 12, 13>>
    ELSE <<14, 15, 16, 17, 10, 11, 12, 13, 8, 9>>

\* side is the record x[b] reduced to the channels chans, frame by frame
C25_IsSide(side, xb, chans) ==
    /\ Len(side) = Len(chans)
    /\ \A k \in 1..Len(chans) : side[k] = xb[chans[k] + 1]

\* C25: dual_stack_eeg_channels on (b, 18, t) returns (2, b, 10, t), index
\* 0 being the left side (channels 0-3, 4-7, 8-9) and index 1 the right
\* side (channels 14-17, 10-13, 8-9), the Z channels 8-9 in both; with
\* drop_z the Z channels are left out and 8 channels remain.
\* EegDualStackingCollator flattens this to (2b, c, t), all left entries
\* before all right entries, the mask being treated as the signal is.
C25_DualStack ==
    LET B == Len(fn_in.eeg)
        left == C25_Left(fn_out.drop_z)
        right == C25_Right(fn_out.drop_z)
    IN  /\ fn_out.name = "dual_stack_eeg_channels" =>
            /\ Len(fn_out.eeg) = 2
            /\ Len(fn_out.eeg_mask) = 2
            /\ Len(fn_out.eeg[1]) = B /\ Len(fn_out.eeg[2]) = B
            /\ Len(fn_out.eeg_mask[1]) = B /\ Len(fn_out.eeg_mask[2]) = B
            /\ \A b \in 1..B :
                /\ Len(fn_out.eeg[1][b]) = (IF fn_out.drop_z THEN 8 ELSE 10)
                /\ C25_IsSide(fn_out.eeg[1][b], fn_in.eeg[b], left)
                /\ C25_IsSide(fn_out.eeg[2][b], fn_in.eeg[b], right)
                /\ C25_IsSide(fn_out.eeg_mask[1][b], fn_in.eeg_mask[b], left)
                /\ C25_IsSide(fn_out.eeg_mask[2][b], fn_in.eeg_mask[b], right)
        /\ fn_out.name = "EegDualStackingCollator" =>
            /\ Len(fn_out.eeg) = 2 * B
            /\ Len(fn_out.eeg_mask) = 2 * B
            /\ \A b \in 1..B :
                /\ C25_IsSide(fn_out.eeg[b], fn_in.eeg[b], left)
                /\ C25_IsSide(fn_out.eeg[B + b], fn_in.eeg[b], right)
                /\ C25_IsSide(fn_out.eeg_mask[b], fn_in.eeg_mask[b], left)
                /\ C25_IsSide(fn_out.eeg_mask[B + b], fn_in.eeg_mask[b], right)

\* two records of exactly 18 channels collated with the Z channels: the
\* second entry is the left side of the second record, the third the right
\* side of the first
C25_Witness ==
    /\ fn_out.name = "EegDualStackingCollator"
    /\ ~fn_out.drop_z
    /\ Len(fn_in.eeg) = 2
    /\ Len(fn_in.eeg[1]) = 18
    /\ Len(fn_out.eeg) = 4
    /\ fn_out.eeg[2][1] = fn_in.eeg[2][1]
    /\ fn_out.eeg[3][1] = fn_in.eeg[1][15]
    /\ fn_out.eeg[3][9] = fn_in.eeg[1][9]
    /\ fn_out.eeg_mask[3][1] /= fn_out.eeg_mask[3][2]

(***************************************************************************)
(* src/external/over9000/lookahead.py: Lookahead over a base optimizer.    *)
(* The base optimizer is whatever the factory makes: its step moves every  *)
(* parameter that has a gradient and leaves the others alone.  The data of *)
(* a parameter is one number; alpha is a fraction num / den.               *)
(***************************************************************************)
\* the parameters of the two groups; the bias of the first group and the
\* weight of the second one may be without a gradient
GroupParams == << <<"w1", "b1">>, <<"w2">> >>

ParamNames == {"w1", "b1", "w2"}

AlwaysWithGrad == {"w1"}

\* what base_optimizer.step adds to a parameter that has a gradient
BaseMove(p) == IF p = "w2" THEN -4 ELSE 4

\* 0.0 <= alpha <= 1.0
Alphas == {[num |-> 0, den |-> 1], [num |-> 1, den |-> 2], [num |-> 1, den |-> 1]}

\* Lookahead(params, lr, base_optimizer_factory, alpha, k): every group
\* gets lookahead_alpha, lookahead_k and lookahead_step = 0 unless it has
\* them already, so a group may come with a lookahead_k of its own
InitLookahead ==
    \E alpha \in Alphas, ks \in [1..Len(GroupParams) -> 1..MaxK] :
        /\ NoDataset
        /\ fn_in = NoInput
        /\ fn_out = NoResult
        /\ param_groups = [g \in 1..Len(GroupParams) |->
                             [params |-> GroupParams[g], lookahead_alpha |-> alpha,
                              lookahead_k |-> ks[g], lookahead_step |-> 0]]
        /\ params = [p \in ParamNames |-> 8]
        /\ state = << >>
        /\ opt_log = [has_grad |-> << >>, updated |-> {}]

\* slow.add_(fast_p.data - slow, alpha=group["lookahead_alpha"])
SlowAdd(slow, fast, alpha) == slow + (alpha.num * (fast - slow)) \div alpha.den

\* update_slow(group) on the parameters ps and the state st
update_slow(group, ps, st, has_grad) ==
    LET mine == {group.params[i] : i \in 1..Len(group.params)}
        touched == {p \in mine : has_grad[p]}
        slow_buffer(p) == IF p \in DOMAIN st THEN st[p].slow_buffer ELSE ps[p]
        slow(p) == SlowAdd(slow_buffer(p), ps[p], group.lookahead_alpha)
    IN  [params |-> [p \in DOMAIN ps |-> IF p \in touched THEN slow(p) ELSE ps[p]],
         state |-> [p \in (DOMAIN st) \cup touched |->
                      IF p \in touched THEN [slow_buffer |-> slow(p)] ELSE st[p]]]

\* the test on the counter as it was before the increment
SlowUpdateDueBefore(lookahead_step, lookahead_k) ==
    (lookahead_step - 1) % lookahead_k = 0

\* group["lookahead_step"] % group["lookahead_k"] == 0
SlowUpdateDue(lookahead_step, lookahead_k) == lookahead_step % lookahead_k = 0

\* for group in self.param_groups: ..., from group g on
RECURSIVE StepGroups(_, _, _)
StepGroups(g, acc, has_grad) ==
    IF g > Len(acc.param_groups) THEN acc
    ELSE LET group == [acc.param_groups[g] EXCEPT !.lookahead_step = @ + 1]
             due == SlowUpdateDue(group.lookahead_step, group.lookahead_k)
             u == update_slow(group, acc.params, acc.state, has_grad)
         IN  StepGroups(g + 1,
                        [param_groups |-> [acc.param_groups EXCEPT ![g] = group],
                         params |-> IF due THEN u.params ELSE acc.params,
                         state |-> IF due THEN u.state ELSE acc.state,
                         updated |-> IF due THEN acc.updated \cup {g}
                                     ELSE acc.updated],
                        has_grad)

\* Lookahead.step(): the base optimizer's step, then the loop over the groups
Step(has_grad) ==
    /\ param_groups[1].lookahead_step < MaxOptSteps
    /\ LET stepped == [p \in ParamNames |->
                         IF has_grad[p] THEN params[p] + BaseMove(p) ELSE params[p]]
           r == StepGroups(1, [param_groups |-> param_groups, params |-> stepped,
                               state |-> state, updated |-> {}], has_grad)
       IN  /\ param_groups' = r.param_groups
           /\ params' = r.params
           /\ state' = r.state
           /\ opt_log' = [has_grad |-> has_grad, updated |-> r.updated]
    /\ UNCHANGED <<dataset_vars, fn_vars>>

NextLookahead ==
    \E has_grad \in [ParamNames -> BOOLEAN] :
        /\ \A p \in AlwaysWithGrad : has_grad[p]
        /\ Step(has_grad)

SpecLookahead == InitLookahead /\ [][NextLookahead]_vars

\* C29: every call of Lookahead.step performs one step of the base
\* optimizer and then adds one to the lookahead_step of every group;
\* update_slow runs for a group on exactly the calls after which its
\* counter is a multiple of its lookahead_k; after update_slow every
\* parameter of the group that has a gradient equals its slow buffer, which
\* moved from its old value by alpha times its distance to the fast value;
\* the first update_slow of a parameter makes the slow buffer from the
\* fast value and so leaves the fast value as the base optimizer left it.
\* Parameters without a gradient, and groups whose counter is no multiple
\* of lookahead_k, are left alone.
C29_LookaheadStep ==
    [][\A g \in 1..Len(param_groups) :
          LET old == param_groups[g]
              new == param_groups'[g]
              has_grad == opt_log'.has_grad
              due == new.lookahead_step % new.lookahead_k = 0
              alpha == old.lookahead_alpha
          IN  /\ new.lookahead_step = old.lookahead_step + 1
              /\ new.lookahead_k = old.lookahead_k
              /\ (g \in opt_log'.updated) <=> due
              /\ \A i \in 1..Len(old.params) :
                  LET p == old.params[i]
                      fast == IF has_grad[p] THEN params[p] + BaseMove(p)
                              ELSE params[p]
                  IN  IF due /\ has_grad[p]
                      THEN /\ p \in DOMAIN state'
                           /\ params'[p] = state'[p].slow_buffer
                           /\ IF p \in DOMAIN state
                              THEN alpha.den * (state'[p].slow_buffer
                                                  - state[p].slow_buffer)
                                     = alpha.num * (fast - state[p].slow_buffer)
                              ELSE params'[p] = fast
                      ELSE /\ params'[p] = fast
                           /\ (p \in DOMAIN state') <=> (p \in DOMAIN state)
                           /\ p \in DOMAIN state => state'[p] = state[p]]_vars

\* after two calls with alpha = 1/2: the first group (k = 1) has run
\* update_slow twice and its weight is half-way back (8 + 4 = 12 kept, then
\* 16 pulled to 14), the second group (k = 2) has run its first update_slow
\* now and its weight is where the base optimizer left it (8 - 4 - 4 = 0),
\* and the bias, which never had a gradient, has no slow buffer
C29_Witness ==
    /\ Len(param_groups) = 2
    /\ param_groups[1].lookahead_alpha = [num |-> 1, den |-> 2]
    /\ param_groups[1].lookahead_k = 1
    /\ param_groups[2].lookahead_k = 2
    /\ param_groups[1].lookahead_step = 2
    /\ opt_log.updated = {1, 2}
    /\ params["w1"] = 14
    /\ state["w1"].slow_buffer = 14
    /\ "w2" \in DOMAIN state
    /\ params["w2"] = 0
    /\ "b1" \notin DOMAIN state
    /\ params["b1"] = 8

\* the shape (L, C) of an array held as its columns
Shape2(x) == <<Len(x[1]), Len(x)>>

SameLengthColumns(x) == \A c \in DOMAIN x : Len(x[c]) = Len(x[1])

\* the smallest multiple of d that is >= L
SmallestMultiple(L, d) ==
    CHOOSE m \in 1..(L + d) :
        /\ m % d = 0
        /\ m >= L
        /\ \A n \in 1..(L + d) : (n % d = 0 /\ n >= L) => m <= n

\* C11: for a signal and a mask of one shape (L, C), L >= 1, both outputs
\* of pad_eeg have the smallest multiple of duration that is >= L as their
\* time length (L itself when L is a multiple), C channels as before, and
\* one and the same shape.
C11_PadEegShape ==
    fn_out.name = "pad_eeg" =>
        LET L == Shape2(fn_in.eeg)[1]
            C == Shape2(fn_in.eeg)[2]
            d == fn_in.duration
        IN  /\ SameLengthColumns(fn_out.eeg)
            /\ SameLengthColumns(fn_out.cqf)
            /\ Shape2(fn_out.eeg) = <<SmallestMultiple(L, d), C>>
            /\ Shape2(fn_out.cqf) = Shape2(fn_out.eeg)
            /\ L % d = 0 => Shape2(fn_out.eeg) = <<L, C>>

\* two channels of more than duration frames, not a multiple of it, padded
C11_Witness ==
    /\ fn_out.name = "pad_eeg"
    /\ Len(fn_in.eeg) >= 2
    /\ Len(fn_in.eeg[1]) > fn_in.duration
    /\ Len(fn_in.eeg[1]) % fn_in.duration /= 0
    /\ Len(fn_out.cqf[2]) > Len(fn_in.cqf[2])

(***************************************************************************)
(* The constructors, statement by statement.  Every class's __init__       *)
(* groups or selects the label rows, calls HmsBaseDataset.__init__ (which  *)
(* assigns the fields, creates the generator and calls reset()), and then  *)
(* builds eeg_ids and eeg_id2metadata.  pc is the position in __init__,    *)
(* fn_in the arguments of the call.                                        *)
(***************************************************************************)
Unassigned ==
    /\ args = << >>
    /\ metadata = << >>
    /\ id2eeg = << >>
    /\ id2cqf = << >>
    /\ spec_id2spec = NoSpectrograms
    /\ eeg_ids = << >>
    /\ eeg_id2metadata = << >>
    /\ chunks = << >>
    /\ generator = 0
    /\ attrs = {}

\* cls(metadata, id2eeg, id2cqf, ...) is entered
InitConstruct ==
    \E c \in Classes, lens \in RecordLengths :
    \E a \in ArgsOf(c, {"right"}, {1, MaxDuration}, Seeds, {1}, {1}, {1}) :
    \E nrows \in RowCounts :
        /\ cls = c
        /\ Unassigned
        /\ pc = "start"
        /\ fn_in = [args |-> a, metadata |-> MetadataTable(nrows, 1, 0, 0),
                    id2eeg |-> [e \in Eegs |-> EegRecord(e, lens[e])],
                    id2cqf |-> [e \in Eegs |-> CqfRecord(e, lens[e])],
                    spec_id2spec |-> NoSpectrograms]
        /\ fn_out = NoResult
        /\ NoOptimizer
        /\ call = NoCall
        /\ data = NoItem
        /\ first_pass = << >>
        /\ this_pass = << >>
        /\ worker_gen = << >>
        /\ worker_start = << >>

\* metadata = metadata.group_by("eeg_id", maintain_order=True).agg(...first())
\* or metadata.select(...), before super().__init__ is called
GroupMetadata ==
    /\ pc = "start"
    /\ fn_in' = [fn_in EXCEPT !.metadata = PreparedMetadata(cls, @)]
    /\ pc' = "super"
    /\ UNCHANGED <<config, generator, call, data, first_pass, this_pass,
                   worker_gen, worker_start, attrs, fn_out, optimizer>>

\* HmsBaseDataset.__init__ up to self._generator = torch.Generator(): the
\* state of a generator torch has just made is torch's choice
AssignFields ==
    /\ pc = "super"
    /\ metadata' = fn_in.metadata
    /\ id2eeg' = fn_in.id2eeg
    /\ id2cqf' = fn_in.id2cqf
    /\ args' = fn_in.args
    /\ generator' \in 0..(GenModulus - 1)
    /\ attrs' = AttrsOfBase
    /\ pc' = "reset"
    /\ UNCHANGED <<cls, spec_id2spec, eeg_ids, eeg_id2metadata, chunks, call,
                   data, first_pass, this_pass, worker_gen, worker_start, fn_vars,
                   optimizer>>

\* self.reset() of HmsBaseDataset.__init__, after which super().__init__
\* returns
SeedInInit ==
    /\ pc = "reset"
    /\ generator' = ManualSeed(args.seed)
    /\ pc' = "index"
    /\ UNCHANGED <<config, call, data, first_pass, this_pass, worker_gen,
                   worker_start, attrs, fn_vars, optimizer>>

\* the index built while the generator is not seeded yet
BuildIndexUnseeded ==
    /\ pc = "reset"
    /\ eeg_ids' = EegIdsOf(metadata)
    /\ eeg_id2metadata' = EegId2Metadata(cls, metadata)
    /\ chunks' = IF cls = ClsSlidingWindowEeg
                 THEN generate_chunks(EegIdsOf(metadata), id2eeg, args.duration,
                                      args.stride)
                 ELSE << >>
    /\ spec_id2spec' = fn_in.spec_id2spec
    /\ attrs' = attrs \cup AttrsOfIndex(cls)
    /\ pc' = "reset"
    /\ UNCHANGED <<cls, args, metadata, id2eeg, id2cqf, generator, call, data,
                   first_pass, this_pass, worker_gen, worker_start, fn_vars,
                   optimizer>>

\* the rest of the class's __init__: self.eeg_ids, self.eeg_id2metadata (and
\* self.chunks, self.spec_id2spec), after which the constructor returns
BuildIndex ==
    /\ pc = "index"
    /\ eeg_ids' = EegIdsOf(metadata)
    /\ eeg_id2metadata' = EegId2Metadata(cls, metadata)
    /\ chunks' = IF cls = ClsSlidingWindowEeg
                 THEN generate_chunks(EegIdsOf(metadata), id2eeg, args.duration,
                                      args.stride)
                 ELSE << >>
    /\ spec_id2spec' = fn_in.spec_id2spec
    /\ attrs' = attrs \cup AttrsOfIndex(cls)
    /\ pc' = "done"
    /\ fn_in' = NoInput
    /\ UNCHANGED <<cls, args, metadata, id2eeg, id2cqf, generator, call, data,
                   first_pass, this_pass, worker_gen, worker_start, fn_out,
                   optimizer>>

NextConstruct == GroupMetadata \/ AssignFields \/ SeedInInit \/ BuildIndex

SpecConstruct == InitConstruct /\ [][NextConstruct]_vars

\* the generator has been seeded from self.seed
Seeded == pc \in {"index", "done"}

\* the index from record id to its label rows exists
Indexed == {"eeg_ids", "eeg_id2metadata"} \subseteq attrs

\* the label rows have been grouped or selected
Grouped == pc /= "start"

\* C19 as stated: construction passes through uninitialized,
\* metadata-indexed and ready in that order, the index (eeg_ids,
\* eeg_id2metadata) being built before the generator is seeded: whenever
\* the generator is seeded the index exists.
C19_IndexBeforeSeed == Seeded => Indexed

\* C19, amended: construction passes through uninitialized, seeded and
\* ready in that order: the label rows are grouped first, the generator is
\* seeded next, and the index is built last, so the index never exists
\* without a seeded generator; the dataset is ready only when both have
\* happened, and it is then the dataset the other specifications start
\* from.
C19_SeedBeforeIndex ==
    /\ Seeded => Grouped /\ generator = ManualSeed(args.seed)
    /\ Indexed => Seeded
    /\ pc = "done" <=> Seeded /\ Indexed
    /\ pc = "done" =>
           ConstructedFrom(cls, args, metadata, id2eeg, id2cqf, spec_id2spec)

\* a constructed dataset whose label rows were grouped to one row per
\* record and whose seed is not the default one
C19_Witness ==
    /\ pc = "done"
    /\ Seeded
    /\ Indexed
    /\ cls /= ClsPerEegSubsample
    /\ Len(metadata) = NumEegs
    /\ args.seed /= DefaultSeed
    /\ generator = ManualSeed(args.seed)

====
